---- MODULE Spec2Model ----
(***************************************************************************)
(* Length-bounded SSZ containers of sigp/ssz_types: FixedVector,           *)
(* FixedVectorU8, VariableList, VariableListU8 and RuntimeVariableList.    *)
(*                                                                         *)
(* One container value `c` is followed through its public operations.  A   *)
(* container is the record [shape, elem, n, vec]: `vec` is the backing     *)
(* Vec<T>, `elem` names T ("u8", "u16", or the two-field struct "A" of the  *)
(* tree hash runs), and `n` is the capacity: the                           *)
(* type-level N of FixedVector / VariableList (to_usize::<N>()) or the      *)
(* `max_len` field of RuntimeVariableList.  `res` records the last          *)
(* operation, its input and what it returned.                              *)
(***************************************************************************)
EXTENDS Integers, Sequences, FiniteSets, TLC

VARIABLES c, res

vars == <<c, res>>

(* ------------------------------ bounds --------------------------------- *)

\* Largest declared capacity N / max_len explored.
MaxN == 2

\* Raw input sequences are up to one element longer than the largest capacity.
MaxLen == MaxN + 1

\* Longest byte string handed to a decoder.
MaxBytes == 6

Min(a, b) == IF a < b THEN a ELSE b

\* All sequences over S of length 0..k.
SeqsUpTo(S, k) == UNION { [1..m -> S] : m \in 0..k }

(* --------------------------- element types ----------------------------- *)

ElemTypes == {"u8", "u16"}

\* Bytes offered to the decoders.
ByteVals == {0, 1}

\* Element values offered to the constructors and writers.
ElemVals(T) == IF T = "u8" THEN {0, 1} ELSE {1, 256}

\* <u8 as Encode>::ssz_fixed_len() = 1, <u16 as Encode>::ssz_fixed_len() = 2.
ssz_fixed_len(T) == IF T = "u8" THEN 1 ELSE 2

\* T::default(); the default of the struct A { a: u32, b: u32 } is <<0, 0>>,
\* that of Hash256 is 32 zero bytes.
elem_default(T) ==
    IF T = "A" THEN <<0, 0>> ELSE IF T = "Hash256" THEN [k \in 1..32 |-> 0] ELSE 0

(* ------------------------- results and errors -------------------------- *)

NoError == [kind |-> "none"]

\* Error::OutOfBounds { i, len }
OutOfBounds(i, n) == [kind |-> "OutOfBounds", i |-> i, len |-> n]

\* ssz::DecodeError::InvalidByteLength { len, expected }
InvalidByteLength(l, e) ==
    [kind |-> "InvalidByteLength", len |-> l, expected |-> e]

\* ssz::DecodeError::BytesInvalid(String); the formatted message is kept as
\* its format name and its two arguments.
BytesInvalid(what, a, b) == [kind |-> "BytesInvalid", what |-> what, a |-> a, b |-> b]

\* ssz::DecodeError::ZeroLengthItem
ZeroLengthItem == [kind |-> "ZeroLengthItem"]

Ok(v) == [ok |-> TRUE, vec |-> v, err |-> NoError]
Err(e) == [ok |-> FALSE, vec |-> <<>>, err |-> e]

(* ------------------------------ shapes --------------------------------- *)

VariableShapes == {"VariableList", "VariableListU8", "RuntimeVariableList"}
FixedShapes == {"FixedVector", "FixedVectorU8"}
Shapes == VariableShapes \cup FixedShapes

\* The U8 shapes hold bytes only.
ShapeElems(shape) ==
    IF shape \in {"VariableListU8", "FixedVectorU8"} THEN {"u8"} ELSE ElemTypes

Container(shape, T, n, vec) == [shape |-> shape, elem |-> T, n |-> n, vec |-> vec]

\* typenum_helpers::to_usize::<N>() on a 64-bit target: N itself.
to_usize(N) == N

\* len(): self.vec.len()
len(x) == Len(x.vec)

\* VariableList::max_len() / FixedVector::capacity() / RuntimeVariableList::max_len()
max_len(x) == IF x.shape = "RuntimeVariableList" THEN x.n ELSE to_usize(x.n)

(* ---------------------------- constructors ----------------------------- *)

\* Variant of VariableList::new with `<` for `<=`: a full sequence is refused.
VariableList_new_Strict(vec, N) ==
    IF Len(vec) < to_usize(N)
    THEN Ok(vec)
    ELSE Err(OutOfBounds(Len(vec), to_usize(N)))

\* VariableList::new(vec)
VariableList_new(vec, N) ==
    IF Len(vec) <= to_usize(N)
    THEN Ok(vec)
    ELSE Err(OutOfBounds(Len(vec), to_usize(N)))

\* RuntimeVariableList::new(vec, max_len)
RuntimeVariableList_new(vec, m) ==
    IF Len(vec) <= m
    THEN Ok(vec)
    ELSE Err(OutOfBounds(Len(vec), m))

\* Variant of FixedVector::new with `<=` for `==`: a short sequence is accepted.
FixedVector_new_AtMost(vec, N) ==
    IF Len(vec) <= N
    THEN Ok(vec)
    ELSE Err(OutOfBounds(Len(vec), N))

\* FixedVector::new(vec)
FixedVector_new(vec, N) ==
    IF Len(vec) = N
    THEN Ok(vec)
    ELSE Err(OutOfBounds(Len(vec), N))

\* VariableListU8::new(vec): Ok(Self { inner: VariableList::new(vec)? })
VariableListU8_new(vec, N) == VariableList_new(vec, N)

\* Variant of FixedVectorU8::new accepting any sequence of at least N bytes.
FixedVectorU8_new_AtLeast(vec, N) ==
    IF Len(vec) >= N
    THEN Ok(vec)
    ELSE Err(OutOfBounds(Len(vec), N))

\* FixedVectorU8::new(vec): Ok(Self { inner: FixedVector::new(vec)? })
FixedVectorU8_new(vec, N) == FixedVector_new(vec, N)

\* new(vec) of the container type (shape, N).
new(shape, vec, N) ==
    CASE shape = "VariableList" -> VariableList_new(vec, N)
      [] shape = "VariableListU8" -> VariableListU8_new(vec, N)
      [] shape = "RuntimeVariableList" -> RuntimeVariableList_new(vec, N)
      [] shape = "FixedVector" -> FixedVector_new(vec, N)
      [] shape = "FixedVectorU8" -> FixedVectorU8_new(vec, N)

\* Vec::truncate(n): keeps the first n elements, a no-op when n >= len.
truncate(vec, n) == SubSeq(vec, 1, Min(Len(vec), n))

\* Variant of From<Vec<T>> without the truncate call.
VariableList_from_Whole(vec, N) == vec

\* impl From<Vec<T>> for VariableList<T, N>
VariableList_from(vec, N) == truncate(vec, to_usize(N))

\* vec![elem; n]
repeat_elem(e, n) == [k \in 1..n |-> e]

\* FixedVector::from_elem(elem)
FixedVector_from_elem(e, N) == repeat_elem(e, N)

\* impl Default for FixedVector: (0..N).map(|_| T::default()).collect()
FixedVector_default(T, N) == [k \in 1..N |-> elem_default(T)]

\* VariableList::empty(), VariableList::default(), RuntimeVariableList::empty(max_len)
VariableList_empty == <<>>

\* The default value of the container type (shape, T, N).
default_value(shape, T, N) ==
    IF shape \in FixedShapes THEN FixedVector_default(T, N) ELSE VariableList_empty

(* -------------------------------- push --------------------------------- *)

\* Variant of VariableList::push without the capacity check.
VariableList_push_Unchecked(vec, value, N) ==
    [vec |-> Append(vec, value), ok |-> TRUE, err |-> NoError]

\* Variant of VariableList::push that appends before it checks the capacity.
VariableList_push_Partial(vec, value, N) ==
    IF Len(vec) < to_usize(N)
    THEN [vec |-> Append(vec, value), ok |-> TRUE, err |-> NoError]
    ELSE [vec |-> Append(vec, value), ok |-> FALSE,
          err |-> OutOfBounds(Len(vec) + 1, to_usize(N))]

\* VariableList::push(value): the new vec and the returned Result.
VariableList_push(vec, value, N) ==
    IF Len(vec) < to_usize(N)
    THEN [vec |-> Append(vec, value), ok |-> TRUE, err |-> NoError]
    ELSE [vec |-> vec, ok |-> FALSE, err |-> OutOfBounds(Len(vec) + 1, to_usize(N))]

\* Variant of RuntimeVariableList::push reporting the current length.
RuntimeVariableList_push_CurrentLen(vec, value, m) ==
    IF Len(vec) < m
    THEN [vec |-> Append(vec, value), ok |-> TRUE, err |-> NoError]
    ELSE [vec |-> vec, ok |-> FALSE, err |-> OutOfBounds(Len(vec), m)]

\* RuntimeVariableList::push(value); saturating_add never saturates on a
\* length that fits the address space.
RuntimeVariableList_push(vec, value, m) ==
    IF Len(vec) < m
    THEN [vec |-> Append(vec, value), ok |-> TRUE, err |-> NoError]
    ELSE [vec |-> vec, ok |-> FALSE, err |-> OutOfBounds(Len(vec) + 1, m)]

\* push(value) on the container x.
push(x, value) ==
    IF x.shape = "RuntimeVariableList"
    THEN RuntimeVariableList_push(x.vec, value, x.n)
    ELSE VariableList_push(x.vec, value, x.n)

(* ---------------------------- try_from_iter ---------------------------- *)

\* const MAX_ELEMENTS_TO_PRE_ALLOCATE: usize = 128 * (1 << 10)
MAX_ELEMENTS_TO_PRE_ALLOCATE == 128 * 1024

\* An iterator's size_hint() upper bound: <<>> is None, <<h>> is Some(h).
Hints == {<<>>, <<0>>, <<MaxLen + 1>>}

\* opt_max_len.map_or(limit, |max_len| min(limit, max_len))
with_capacity_arg(limit, hint) ==
    IF hint = <<>> THEN limit ELSE Min(limit, hint[1])

\* `for item in iter { l.push(item)?; } Ok(l)`; `pulled` counts the items
\* taken from the iterator.
RECURSIVE VariableList_push_all(_, _, _, _)
VariableList_push_all(vec, items, N, pulled) ==
    IF items = <<>>
    THEN [ok |-> TRUE, vec |-> vec, err |-> NoError, pulled |-> pulled]
    ELSE LET r == VariableList_push(vec, Head(items), N)
         IN  IF r.ok
             THEN VariableList_push_all(r.vec, Tail(items), N, pulled + 1)
             ELSE [ok |-> FALSE, vec |-> <<>>, err |-> r.err, pulled |-> pulled + 1]

\* Variant of VariableList::try_from_iter that collects the whole iterator
\* and converts with From<Vec<T>>.
VariableList_try_from_iter_Truncating(items, hint, N) ==
    [ok |-> TRUE, vec |-> VariableList_from(items, N), err |-> NoError,
     pulled |-> Len(items), prealloc |-> with_capacity_arg(to_usize(N), hint)]

\* impl TryFromIter<T> for VariableList<T, N>
VariableList_try_from_iter(items, hint, N) ==
    LET n == to_usize(N)
        clamped_n == Min(MAX_ELEMENTS_TO_PRE_ALLOCATE, n)
        prealloc == with_capacity_arg(clamped_n, hint)
        l == VariableList_new(<<>>, N)
    IN  IF ~l.ok
        THEN [ok |-> FALSE, vec |-> <<>>, err |-> l.err, pulled |-> 0,
              prealloc |-> prealloc]
        ELSE [prealloc |-> prealloc] @@ VariableList_push_all(l.vec, items, N, 0)

\* Variant of FixedVector::try_from_iter that collects the whole iterator
\* before it checks the length.
FixedVector_collect_Eager(vec, items, n, pulled) ==
    [pulled |-> pulled + Len(items)] @@ FixedVector_new(vec \o items, n)

\* The loop of FixedVector::try_from_iter followed by Self::new(vec).
RECURSIVE FixedVector_collect(_, _, _, _)
FixedVector_collect(vec, items, n, pulled) ==
    IF items = <<>>
    THEN [pulled |-> pulled] @@ FixedVector_new(vec, n)
    ELSE IF Len(vec) >= n
         THEN [ok |-> FALSE, vec |-> <<>>, err |-> OutOfBounds(Len(vec), n),
               pulled |-> pulled + 1]
         ELSE FixedVector_collect(Append(vec, Head(items)), Tail(items), n, pulled + 1)

\* impl TryFromIter<T> for FixedVector<T, N>
FixedVector_try_from_iter(items, hint, N) ==
    [prealloc |-> with_capacity_arg(N, hint)] @@ FixedVector_collect(<<>>, items, N, 0)

\* try_from_iter of the container type (shape, N); the U8 shapes wrap the
\* inner container's result.
try_from_iter(shape, items, hint, N) ==
    IF shape \in FixedShapes
    THEN FixedVector_try_from_iter(items, hint, N)
    ELSE VariableList_try_from_iter(items, hint, N)

(* ------------------------------- encode -------------------------------- *)

\* Variant of the element encoder writing a u16 high byte first.
elem_ssz_append_BigEndian(T, v, buf) ==
    IF T = "u8" THEN Append(buf, v) ELSE buf \o <<v \div 256, v % 256>>

\* item.ssz_append(buf) of a u8 / u16 element: the value, little-endian.
elem_ssz_append(T, v, buf) ==
    IF T = "u8" THEN Append(buf, v) ELSE buf \o <<v % 256, v \div 256>>

\* `for item in &self.vec { item.ssz_append(buf); }`
\* Every item appends ssz_fixed_len(T) bytes: byte j of the output past buf
\* is byte (j - 1) % s of item (j - 1) / s.
items_ssz_append(T, vec, buf) ==
    LET s == ssz_fixed_len(T)
    IN  buf \o [j \in 1..(s * Len(vec)) |->
                  elem_ssz_append(T, vec[((j - 1) \div s) + 1], <<>>)[((j - 1) % s) + 1]]

\* Encode::ssz_append(&self, buf) of the container x.
ssz_append(x, buf) ==
    IF x.shape \in {"VariableListU8", "FixedVectorU8"}
    THEN buf \o x.vec                          \* buf.extend_from_slice(&self.inner)
    ELSE items_ssz_append(x.elem, x.vec, buf)  \* fixed-length elements

\* Encode::as_ssz_bytes(&self): ssz_append into an empty buffer.
as_ssz_bytes(x) == ssz_append(x, <<>>)

\* <X as Encode>::ssz_fixed_len() of the Fixed container types with
\* fixed-length elements: T::ssz_fixed_len() * N for FixedVector, N for
\* FixedVectorU8.
container_ssz_fixed_len(shape, T, N) ==
    IF shape = "FixedVectorU8" THEN N ELSE ssz_fixed_len(T) * N

\* Encode::ssz_bytes_len(&self)
ssz_bytes_len(x) ==
    IF x.shape \in {"VariableListU8", "FixedVectorU8"}
    THEN len(x)                                \* self.len()
    ELSE ssz_fixed_len(x.elem) * Len(x.vec)    \* self.vec.ssz_bytes_len()

(* ------------------------------- decode -------------------------------- *)

\* T::from_ssz_bytes(chunk) of a u8 / u16 element.
elem_from_ssz_bytes(T, chunk) ==
    IF Len(chunk) # ssz_fixed_len(T)
    THEN [ok |-> FALSE, val |-> 0, err |-> InvalidByteLength(Len(chunk), ssz_fixed_len(T))]
    ELSE [ok |-> TRUE,
          val |-> IF T = "u8" THEN chunk[1] ELSE chunk[1] + 256 * chunk[2],
          err |-> NoError]

\* usize::checked_div: None (here -1) on a zero divisor.
checked_div(a, b) == IF b = 0 THEN -1 ELSE a \div b

\* Variant of the chunk loop over bytes.chunks_exact(size): a trailing
\* partial chunk is dropped instead of being handed to the element decoder.
RECURSIVE chunks_try_fold_Exact(_, _, _)
chunks_try_fold_Exact(T, bytes, acc) ==
    IF Len(bytes) < ssz_fixed_len(T) THEN Ok(acc)
    ELSE LET k == ssz_fixed_len(T)
             r == elem_from_ssz_bytes(T, SubSeq(bytes, 1, k))
         IN  IF r.ok
             THEN chunks_try_fold_Exact(T, SubSeq(bytes, k + 1, Len(bytes)), Append(acc, r.val))
             ELSE Err(r.err)

\* bytes.chunks(size).try_fold(Vec::new(), |vec, chunk| { vec.push(T::from_ssz_bytes(chunk)?); Ok(vec) })
RECURSIVE chunks_try_fold(_, _, _)
chunks_try_fold(T, bytes, acc) ==
    IF bytes = <<>> THEN Ok(acc)
    ELSE LET k == Min(ssz_fixed_len(T), Len(bytes))
             r == elem_from_ssz_bytes(T, SubSeq(bytes, 1, k))
         IN  IF r.ok
             THEN chunks_try_fold(T, SubSeq(bytes, k + 1, Len(bytes)), Append(acc, r.val))
             ELSE Err(r.err)

\* Variant of VariableList::from_ssz_bytes with `>=` for `>` in the bound check.
VariableList_from_ssz_bytes_OffByOne(T, bytes, N) ==
    LET m == to_usize(N)
        num_items == checked_div(Len(bytes), ssz_fixed_len(T))
    IN  IF bytes = <<>> THEN Ok(VariableList_from(<<>>, N))
        ELSE IF num_items = -1 THEN Err(ZeroLengthItem)
        ELSE IF num_items >= m THEN Err(BytesInvalid("VariableList exceeds maximum", num_items, m))
        ELSE LET r == chunks_try_fold(T, bytes, <<>>)
             IN  IF r.ok THEN Ok(VariableList_from(r.vec, N)) ELSE r

\* impl Decode for VariableList<T, N>, T of fixed length.
VariableList_from_ssz_bytes(T, bytes, N) ==
    LET m == to_usize(N)
        num_items == checked_div(Len(bytes), ssz_fixed_len(T))
    IN  IF bytes = <<>> THEN Ok(VariableList_from(<<>>, N))
        ELSE IF num_items = -1 THEN Err(ZeroLengthItem)
        ELSE IF num_items > m THEN Err(BytesInvalid("VariableList exceeds maximum", num_items, m))
        ELSE LET r == chunks_try_fold(T, bytes, <<>>)
             IN  IF r.ok THEN Ok(VariableList_from(r.vec, N)) ELSE r

\* Variant of RuntimeVariableList::from_ssz_bytes whose empty-input branch
\* is the one of FixedVector::from_ssz_bytes.
RuntimeVariableList_from_ssz_bytes_EmptyRefused(T, bytes, m) ==
    LET num_items == checked_div(Len(bytes), ssz_fixed_len(T))
    IN  IF bytes = <<>> THEN Err(InvalidByteLength(0, 1))
        ELSE IF num_items = -1 THEN Err(ZeroLengthItem)
        ELSE IF num_items > m
             THEN Err(BytesInvalid("RuntimeVariableList exceeds maximum", num_items, m))
        ELSE chunks_try_fold(T, bytes, <<>>)

\* RuntimeVariableList::from_ssz_bytes(bytes, max_len), T of fixed length.
RuntimeVariableList_from_ssz_bytes(T, bytes, m) ==
    LET num_items == checked_div(Len(bytes), ssz_fixed_len(T))
    IN  IF bytes = <<>> THEN Ok(<<>>)
        ELSE IF num_items = -1 THEN Err(ZeroLengthItem)
        ELSE IF num_items > m
             THEN Err(BytesInvalid("RuntimeVariableList exceeds maximum", num_items, m))
        ELSE chunks_try_fold(T, bytes, <<>>)

\* Self::new(vec).map_err(|e| BytesInvalid(format!("...: {:?}", e)))
map_err_BytesInvalid(r) ==
    IF r.ok THEN r ELSE Err(BytesInvalid("OutOfBounds", r.err.i, r.err.len))

\* Variant of FixedVector::from_ssz_bytes without the empty-input branch.
FixedVector_from_ssz_bytes_NoEmptyCheck(T, bytes, N) ==
    LET fixed_len == N
        num_items == checked_div(Len(bytes), ssz_fixed_len(T))
    IN  IF num_items = -1 THEN Err(ZeroLengthItem)
        ELSE IF num_items # fixed_len
             THEN Err(BytesInvalid("FixedVector has items", num_items, fixed_len))
        ELSE LET r == chunks_try_fold(T, bytes, <<>>)
             IN  IF r.ok THEN map_err_BytesInvalid(FixedVector_new(r.vec, N)) ELSE r

\* impl Decode for FixedVector<T, N>, T of fixed length.
FixedVector_from_ssz_bytes(T, bytes, N) ==
    LET fixed_len == N
        num_items == checked_div(Len(bytes), ssz_fixed_len(T))
    IN  IF bytes = <<>> THEN Err(InvalidByteLength(0, 1))
        ELSE IF num_items = -1 THEN Err(ZeroLengthItem)
        ELSE IF num_items # fixed_len
             THEN Err(BytesInvalid("FixedVector has items", num_items, fixed_len))
        ELSE LET r == chunks_try_fold(T, bytes, <<>>)
             IN  IF r.ok THEN map_err_BytesInvalid(FixedVector_new(r.vec, N)) ELSE r

\* impl Decode for VariableListU8<N>: VariableList::new(bytes.to_vec()).map_err(..)
VariableListU8_from_ssz_bytes(bytes, N) == map_err_BytesInvalid(VariableList_new(bytes, N))

\* impl Decode for FixedVectorU8<N>: FixedVector::new(bytes.to_vec()).map_err(..)
FixedVectorU8_from_ssz_bytes(bytes, N) == map_err_BytesInvalid(FixedVector_new(bytes, N))

\* from_ssz_bytes of the container type (shape, T, N).
from_ssz_bytes(shape, T, bytes, N) ==
    CASE shape = "VariableList" -> VariableList_from_ssz_bytes(T, bytes, N)
      [] shape = "VariableListU8" -> VariableListU8_from_ssz_bytes(bytes, N)
      [] shape = "RuntimeVariableList" -> RuntimeVariableList_from_ssz_bytes(T, bytes, N)
      [] shape = "FixedVector" -> FixedVector_from_ssz_bytes(T, bytes, N)
      [] shape = "FixedVectorU8" -> FixedVectorU8_from_ssz_bytes(bytes, N)

(* -------------------------- text deserialization ----------------------- *)

\* impl Deserialize for VariableList<T, N>: Vec::<T>::deserialize, then the
\* length check; the error is serde's custom error.
VariableList_deserialize(vec, N) ==
    IF Len(vec) <= to_usize(N)
    THEN Ok(vec)
    ELSE Err([kind |-> "custom", what |-> "VariableList length exceeds maximum length",
              a |-> Len(vec), b |-> to_usize(N)])

\* impl Deserialize for FixedVector<T, N>
FixedVector_deserialize(vec, N) ==
    IF Len(vec) = N
    THEN Ok(vec)
    ELSE Err([kind |-> "custom", what |-> "Wrong number of FixedVector elements",
              a |-> N, b |-> Len(vec)])

\* Deserialize of the type-level container type (shape, N); the U8 shapes
\* deserialize their inner container.
deserialize(shape, vec, N) ==
    IF shape \in FixedShapes
    THEN FixedVector_deserialize(vec, N)
    ELSE VariableList_deserialize(vec, N)

\* #[derive(Deserialize)] #[serde(transparent)] on RuntimeVariableList with
\* #[serde(skip)] max_len: vec is the deserialized Vec<T>, whatever its
\* length, and max_len is usize::default().
RuntimeVariableList_deserialize(T, vec) == Container("RuntimeVariableList", T, 0, vec)

\* impl ContextDeserialize<(C, usize)> for RuntimeVariableList<T>:
\* RuntimeVariableList::new(vec, context.1) with serde's custom error.
RuntimeVariableList_context_deserialize(vec, m) ==
    LET r == RuntimeVariableList_new(vec, m)
    IN  IF r.ok THEN r
        ELSE Err([kind |-> "custom", what |-> "RuntimeVariableList length exceeds max_len",
                  a |-> Len(vec), b |-> m])

\* impl ContextDeserialize<C> for FixedVector<T, N>: FixedVector::new(vec)
\* with the Debug text of its error as serde's custom error.
FixedVector_context_deserialize(vec, N) ==
    LET r == FixedVector_new(vec, N)
    IN  IF r.ok THEN r
        ELSE Err([kind |-> "custom", what |-> "OutOfBounds", a |-> r.err.i, b |-> r.err.len])

(* ------------------------- equality and std hash ----------------------- *)

\* impl PartialEq for VariableList / FixedVector (and the U8 wrappers):
\* self.vec == other.vec
VariableList_eq(a, b) == a.vec = b.vec

\* Variant of RuntimeVariableList's equality that skips max_len.
RuntimeVariableList_eq_VecOnly(a, b) == a.vec = b.vec

\* #[educe(PartialEq)] on RuntimeVariableList { vec, max_len }: every field.
RuntimeVariableList_eq(a, b) == a.vec = b.vec /\ a.n = b.n

\* a == b for two containers of one type.
eq(a, b) ==
    IF a.shape = "RuntimeVariableList"
    THEN RuntimeVariableList_eq(a, b)
    ELSE VariableList_eq(a, b)

\* <Vec<T> as Hash>::hash: the length prefix, then every element.  A hash is
\* modelled by the stream written to the Hasher.
Vec_hash(vec) == <<Len(vec)>> \o vec

\* impl Hash for VariableList / FixedVector: self.vec.hash(state)
VariableList_hash(a) == Vec_hash(a.vec)

\* #[educe(Hash)] on RuntimeVariableList: vec, then max_len.
RuntimeVariableList_hash(a) == Vec_hash(a.vec) \o <<a.n>>

\* The stream a container writes to a std Hasher.
hash(a) ==
    IF a.shape = "RuntimeVariableList"
    THEN RuntimeVariableList_hash(a)
    ELSE VariableList_hash(a)

(* ------------------------------ tree hash ------------------------------ *)

\* tree_hash::BYTES_PER_CHUNK (HASHSIZE): the size of a leaf and of a hash.
BYTES_PER_CHUNK == 32

\* A 32-byte leaf holding `bytes` followed by zero bytes.
Chunk(bytes) == <<"chunk", bytes \o [k \in 1..(BYTES_PER_CHUNK - Len(bytes)) |-> 0]>>

\* ethereum_hashing::hash32_concat(a, b).  The hash primitive is kept as a
\* free constructor: two hashes are equal iff their inputs are.
hash32_concat(a, b) == <<"hash", a, b>>

\* Hash256::ZERO
ZERO == Chunk(<<>>)

\* The first `w` bytes of n.to_le_bytes().
RECURSIVE to_le_bytes(_, _)
to_le_bytes(n, w) == IF w = 0 THEN <<>> ELSE <<n % 256>> \o to_le_bytes(n \div 256, w - 1)

\* usize::next_power_of_two where the result fits usize, that is for
\* n <= 2^(usize::BITS - 1); 0 and 1 give 1.  Every capacity written at its
\* real size is in that range; where the width is scaled down the call is
\* next_power_of_two_build.
RECURSIVE next_power_of_two(_)
next_power_of_two(n) == IF n <= 1 THEN 1 ELSE 2 * next_power_of_two((n + 1) \div 2)

\* usize::div_ceil
div_ceil(a, b) == (a + b - 1) \div b

\* The 32-byte leaves a MerkleHasher cuts a written byte stream into; the
\* last one is padded with zeros by finish().
RECURSIVE leaves_of_bytes(_)
leaves_of_bytes(bytes) ==
    IF bytes = <<>> THEN <<>>
    ELSE LET k == Min(BYTES_PER_CHUNK, Len(bytes))
         IN  <<Chunk(SubSeq(bytes, 1, k))>> \o leaves_of_bytes(SubSeq(bytes, k + 1, Len(bytes)))

\* The root over `width` leaves (a power of two) of which the first
\* Len(leaves) are given and the rest are zero leaves.
RECURSIVE merkleize(_, _)
merkleize(leaves, width) ==
    IF width = 1
    THEN IF leaves = <<>> THEN ZERO ELSE leaves[1]
    ELSE LET half == width \div 2
         IN  hash32_concat(merkleize(SubSeq(leaves, 1, Min(half, Len(leaves))), half),
                           merkleize(SubSeq(leaves, half + 1, Len(leaves)), half))

\* MerkleHasher::with_leaves(num_leaves), the writes of `leaves`, finish():
\* the tree has next_power_of_two(num_leaves) leaves; a leaf past them is
\* the error on which the callers' expect() panics.
MerkleHasher(num_leaves, leaves) ==
    LET width == next_power_of_two(num_leaves)
    IN  IF Len(leaves) > width
        THEN [ok |-> FALSE, root |-> ZERO]
        ELSE [ok |-> TRUE, root |-> merkleize(leaves, width)]

\* tree_hash::merkle_root(bytes, minimum_leaf_count)
merkle_root(bytes, minimum_leaf_count) ==
    LET n == div_ceil(Len(bytes), BYTES_PER_CHUNK)
        leaves == IF n > minimum_leaf_count THEN n ELSE minimum_leaf_count
    IN  IF leaves = 0 THEN ZERO
        ELSE IF leaves = 1 THEN Chunk(bytes)
        ELSE IF leaves = 2
             THEN hash32_concat(Chunk(SubSeq(bytes, 1, Min(BYTES_PER_CHUNK, Len(bytes)))),
                                Chunk(SubSeq(bytes, BYTES_PER_CHUNK + 1, Len(bytes))))
        ELSE MerkleHasher(leaves, leaves_of_bytes(bytes)).root

\* tree_hash::mix_in_length(root, length): hash32_concat(root, length as 32
\* little-endian bytes).
mix_in_length(root, length) == hash32_concat(root, Chunk(to_le_bytes(length, 8)))

\* T::tree_hash_type(): u8, u16 and u64 are Basic, Hash256 is a Vector, the
\* struct A is a Container.
tree_hash_type(T) ==
    IF T \in {"u8", "u16", "u64"} THEN "Basic"
    ELSE IF T = "Hash256" THEN "Vector" ELSE "Container"

\* T::tree_hash_packing_factor() of a Basic type: 32 / size_of::<T>().
tree_hash_packing_factor(T) == IF T = "u8" THEN 32 ELSE IF T = "u64" THEN 4 ELSE 16

\* item.tree_hash_packed_encoding() of a Basic value: its little-endian bytes.
tree_hash_packed_encoding(T, v) ==
    to_le_bytes(v, IF T = "u8" THEN 1 ELSE IF T = "u64" THEN 8 ELSE 2)

\* item.tree_hash_root() of A { a: u32, b: u32 } (derived): the root over
\* its two field leaves; of a Hash256: its 32 bytes.
elem_tree_hash_root(T, v) ==
    IF T = "Hash256" THEN Chunk(v)
    ELSE hash32_concat(Chunk(to_le_bytes(v[1], 4)), Chunk(to_le_bytes(v[2], 4)))

\* The bytes written by `for item in vec { hasher.write(&item.tree_hash_packed_encoding()) }`
\* Every item writes BYTES_PER_CHUNK / factor bytes: byte j of the stream is
\* byte (j - 1) % w of item (j - 1) / w.
packed_bytes(T, vec) ==
    LET w == BYTES_PER_CHUNK \div tree_hash_packing_factor(T)
    IN  [j \in 1..(w * Len(vec)) |->
            tree_hash_packed_encoding(T, vec[((j - 1) \div w) + 1])[((j - 1) % w) + 1]]

\* The leaves written by `for item in vec { hasher.write(item.tree_hash_root()) }`
item_roots(T, vec) == [k \in 1..Len(vec) |-> elem_tree_hash_root(T, vec[k])]

\* Variant of vec_tree_hash_root sizing the tree by the current length.
vec_tree_hash_root_ByLen(T, vec, N) ==
    IF tree_hash_type(T) = "Basic"
    THEN MerkleHasher(div_ceil(Len(vec), tree_hash_packing_factor(T)),
                      leaves_of_bytes(packed_bytes(T, vec)))
    ELSE MerkleHasher(Len(vec), item_roots(T, vec))

\* tree_hash::vec_tree_hash_root::<T, N>(vec): [ok, root], ok = FALSE when
\* an expect() panics.
vec_tree_hash_root(T, vec, N) ==
    IF tree_hash_type(T) = "Basic"
    THEN MerkleHasher((N + tree_hash_packing_factor(T) - 1) \div tree_hash_packing_factor(T),
                      leaves_of_bytes(packed_bytes(T, vec)))
    ELSE MerkleHasher(N, item_roots(T, vec))

\* runtime_vec_tree_hash_root::<T>(vec, max_len)
runtime_vec_tree_hash_root(T, vec, m) ==
    IF tree_hash_type(T) = "Basic"
    THEN MerkleHasher(div_ceil(m, tree_hash_packing_factor(T)),
                      leaves_of_bytes(packed_bytes(T, vec)))
    ELSE MerkleHasher(m, item_roots(T, vec))

\* The root a container computes over its elements, before any length is
\* mixed in.
data_root(x) ==
    CASE x.shape = "VariableListU8" -> [ok |-> TRUE, root |-> merkle_root(x.vec, 0)]
      [] x.shape = "RuntimeVariableList" -> runtime_vec_tree_hash_root(x.elem, x.vec, x.n)
      [] x.shape = "FixedVectorU8" -> vec_tree_hash_root("u8", x.vec, x.n)
      [] OTHER -> vec_tree_hash_root(x.elem, x.vec, x.n)

\* Variant of the lists' tree_hash_root mixing in the capacity.
tree_hash_root_MixCapacity(x) ==
    LET r == data_root(x)
    IN  IF x.shape \in FixedShapes THEN r
        ELSE [ok |-> r.ok, root |-> mix_in_length(r.root, max_len(x))]

\* Variant of the lists' tree_hash_root without the length.
tree_hash_root_NoLength(x) == data_root(x)

\* TreeHash::tree_hash_root(&self): the data root for FixedVector and
\* FixedVectorU8, mix_in_length(&root, self.len()) for the three lists.
tree_hash_root(x) ==
    LET r == data_root(x)
    IN  IF x.shape \in FixedShapes THEN r
        ELSE [ok |-> r.ok, root |-> mix_in_length(r.root, len(x))]

(* -------------------------- RuntimeFixedVector ------------------------- *)

\* RuntimeFixedVector { vec, len } over elements of type T.
RuntimeFixedVector(T, vec, length) ==
    [shape |-> "RuntimeFixedVector", elem |-> T, vec |-> vec, len |-> length]

\* RuntimeFixedVector::new(vec)
RuntimeFixedVector_new(T, vec) == RuntimeFixedVector(T, vec, Len(vec))

\* RuntimeFixedVector::default(max_len)
RuntimeFixedVector_default(T, n) ==
    RuntimeFixedVector(T, repeat_elem(elem_default(T), n), n)

\* Variant of take() that leaves self as mem::take left it.
RuntimeFixedVector_take_NoRefill(self) ==
    [self |-> RuntimeFixedVector(self.elem, <<>>, self.len),
     ret |-> RuntimeFixedVector(self.elem, self.vec, self.len)]

\* RuntimeFixedVector::take(&mut self): self becomes new(vec![T::default();
\* self.len]); the old elements are returned with the new self.len.
RuntimeFixedVector_take(self) ==
    LET new_vec == self.vec
        refilled == RuntimeFixedVector_new(self.elem, repeat_elem(elem_default(self.elem), self.len))
    IN  [self |-> refilled,
         ret |-> RuntimeFixedVector(self.elem, new_vec, refilled.len)]

\* (&mut *self)[i] = value through DerefMut<Target = [T]>; an index past the
\* slice panics and writes nothing (i counts from 0).
RuntimeFixedVector_index_mut(self, i, value) ==
    IF i < Len(self.vec)
    THEN [panic |-> FALSE, self |-> [self EXCEPT !.vec[i + 1] = value]]
    ELSE [panic |-> TRUE, self |-> self]

(* --------------------------- proofs and gindex ------------------------- *)

Max(a, b) == IF a > b THEN a ELSE b

\* `effective_size` of generate_proof: the padded leaf count of the data
\* tree of capacity N.
effective_size(T, N) ==
    IF tree_hash_type(T) = "Basic"
    THEN next_power_of_two((N + tree_hash_packing_factor(T) - 1) \div tree_hash_packing_factor(T))
    ELSE next_power_of_two(N)

\* compute_node_hash_at_gindex::<T, N>(vec, gindex, effective_size): the
\* hash, whether every hasher call succeeded, and the number of nested
\* calls below this one.
RECURSIVE compute_node_hash_at_gindex(_, _, _, _, _)
compute_node_hash_at_gindex(T, vec, N, gindex, eff) ==
    IF gindex >= eff
    THEN LET index == gindex - eff
         IN  IF tree_hash_type(T) = "Basic"
             THEN LET factor == tree_hash_packing_factor(T)
                      chunk_count == (N + factor - 1) \div factor
                      start_idx == index * factor
                      end_idx == Min(start_idx + factor, Len(vec))
                      h == MerkleHasher(1, leaves_of_bytes(
                               packed_bytes(T, SubSeq(vec, start_idx + 1, end_idx))))
                  IN  IF index < chunk_count
                      THEN [ok |-> h.ok, hash |-> h.root, depth |-> 0]
                      ELSE [ok |-> TRUE, hash |-> ZERO, depth |-> 0]
             ELSE IF index < Len(vec)
                  THEN [ok |-> TRUE, hash |-> elem_tree_hash_root(T, vec[index + 1]), depth |-> 0]
                  ELSE [ok |-> TRUE, hash |-> ZERO, depth |-> 0]
    ELSE LET left_hash == compute_node_hash_at_gindex(T, vec, N, gindex * 2, eff)
             right_hash == compute_node_hash_at_gindex(T, vec, N, gindex * 2 + 1, eff)
         IN  [ok |-> left_hash.ok /\ right_hash.ok,
              hash |-> hash32_concat(left_hash.hash, right_hash.hash),
              depth |-> 1 + Max(left_hash.depth, right_hash.depth)]

\* The sibling of a node: gindex - 1 for a right child, gindex + 1 for a
\* left child.
sibling_gindex(g) == IF g % 2 = 1 THEN g - 1 ELSE g + 1

\* Variant of the loop of generate_proof that stops below the root's children.
RECURSIVE generate_proof_loop_Short(_, _, _, _, _)
generate_proof_loop_Short(T, vec, N, current_gindex, eff) ==
    IF current_gindex <= 3 THEN <<>>
    ELSE <<compute_node_hash_at_gindex(T, vec, N, sibling_gindex(current_gindex), eff)>>
         \o generate_proof_loop_Short(T, vec, N, current_gindex \div 2, eff)

\* The loop of generate_proof: one sibling per iteration while
\* current_gindex > 1, in the order pushed.
RECURSIVE generate_proof_loop(_, _, _, _, _)
generate_proof_loop(T, vec, N, current_gindex, eff) ==
    IF current_gindex <= 1 THEN <<>>
    ELSE <<compute_node_hash_at_gindex(T, vec, N, sibling_gindex(current_gindex), eff)>>
         \o generate_proof_loop(T, vec, N, current_gindex \div 2, eff)

\* generate_proof::<T, N>(vec, gindex): Err on the first failed sibling,
\* else the proof; `iterations` counts the loop's rounds and `depth` is the
\* deepest nesting of a sibling computation.
generate_proof(T, vec, N, gindex) ==
    LET steps == generate_proof_loop(T, vec, N, gindex, effective_size(T, N))
    IN  [ok |-> \A k \in 1..Len(steps) : steps[k].ok,
         proof |-> [k \in 1..Len(steps) |-> steps[k].hash],
         iterations |-> Len(steps),
         depth |-> [k \in 1..Len(steps) |-> steps[k].depth]]

\* Variant of generate_proof_for_vec that refuses a gindex below the leaves
\* of the data tree.
generate_proof_for_vec_Bounded(T, vec, N, gindex) ==
    IF gindex = 0 \/ gindex >= 2 * effective_size(T, N)
    THEN [ok |-> FALSE, proof |-> <<>>, iterations |-> 0, depth |-> <<>>]
    ELSE IF N = 0
         THEN [ok |-> TRUE, proof |-> <<>>, iterations |-> 0, depth |-> <<>>]
         ELSE generate_proof(T, vec, N, gindex)

\* generate_proof_for_vec::<T, N>(vec, gindex); ok = FALSE is Err(Error::Oops).
generate_proof_for_vec(T, vec, N, gindex) ==
    IF gindex = 0
    THEN [ok |-> FALSE, proof |-> <<>>, iterations |-> 0, depth |-> <<>>]
    ELSE IF N = 0
         THEN [ok |-> TRUE, proof |-> <<>>, iterations |-> 0, depth |-> <<>>]
         ELSE generate_proof(T, vec, N, gindex)

\* tree_hash::prototype::vector_chunk_count::<T>(N): the leaves N elements
\* of type T fill.
vector_chunk_count(T, N) ==
    IF tree_hash_type(T) = "Basic"
    THEN (N + tree_hash_packing_factor(T) - 1) \div tree_hash_packing_factor(T)
    ELSE N

\* tree_hash::prototype::get_vector_item_position::<T>(I): the leaf that
\* holds element I.
get_vector_item_position(T, I) ==
    IF tree_hash_type(T) = "Basic" THEN I \div tree_hash_packing_factor(T) ELSE I

\* Variant of the VecIndex resolver without the length mix-in level.
VecIndex_gindex_NoMixin(T, I, N, parent_index) ==
    parent_index * next_power_of_two(vector_chunk_count(T, N)) + get_vector_item_position(T, I)

\* <VariableList<T, U<N>> as Resolve<VecIndex<I, N>>>::gindex(parent_index)
VecIndex_gindex(T, I, N, parent_index) ==
    LET base_index == 2
        chunk_count == vector_chunk_count(T, N)
        pos == get_vector_item_position(T, I)
    IN  parent_index * base_index * next_power_of_two(chunk_count) + pos

\* <S as Resolve<F>>::gindex(parent_index) of a struct field F: Field.
Field_gindex(NUM_FIELDS, INDEX, parent_index) ==
    parent_index * next_power_of_two(NUM_FIELDS) + INDEX

\* One step of a path: a struct field or a list index.
FieldStep(NUM_FIELDS, INDEX) == [kind |-> "field", num |-> NUM_FIELDS, index |-> INDEX]
IndexStep(T, I, N) == [kind |-> "index", elem |-> T, index |-> I, n |-> N]

\* Resolve<Path<First, Rest>>::gindex(parent_index): the rest resolved under
\* the gindex of the first step.
RECURSIVE Path_gindex(_, _)
Path_gindex(path, parent_index) ==
    IF path = <<>> THEN parent_index
    ELSE LET step == Head(path)
             g == IF step.kind = "field"
                  THEN Field_gindex(step.num, step.index, parent_index)
                  ELSE VecIndex_gindex(step.elem, step.index, step.n, parent_index)
         IN  Path_gindex(Tail(path), g)

(* ----------------------------- length guard ---------------------------- *)

\* Integer widths of a build, scaled down: usize has NarrowBits bits on a
\* narrow-pointer target (target_pointer_width = "32") and WideBits bits on
\* a 64-bit target; u64 has WideBits bits on both.
NarrowBits == 5
WideBits == 8

\* usize::MAX of a target whose usize has `bits` bits.
usize_MAX(bits) == 2 ^ bits - 1

\* <N as Unsigned>::to_usize(): the low `bits` bits of N.
typenum_to_usize(N, bits) == N % (2 ^ bits)

\* <N as Unsigned>::to_u64(): the low bits of N that a u64 holds.
typenum_to_u64(N) == N % (2 ^ WideBits)

\* The outcome of a call that may panic.
Returned(v) == [panic |-> FALSE, value |-> v]
Panicked == [panic |-> TRUE, value |-> 0]

\* Variant of to_usize that returns N::to_usize() on every target.
to_usize_build_Unchecked(N, bits, cap) == Returned(typenum_to_usize(N, bits))

\* typenum_helpers::to_usize::<N>() of a build: `bits` is the target's
\* pointer width, `cap` the feature cap-typenum-to-usize-overflow.
to_usize_build(N, bits, cap) ==
    IF bits = WideBits
    THEN Returned(typenum_to_usize(N, bits))
    ELSE LET as_usize == typenum_to_usize(N, bits)
             as_u64 == typenum_to_u64(N)
         IN  IF as_usize = as_u64 THEN Returned(as_usize)
             ELSE IF cap THEN Returned(usize_MAX(bits))
             ELSE Panicked

\* ethereum_hashing::ZERO_HASHES[d]: the root of an all-zero subtree of depth d.
RECURSIVE ZERO_HASHES(_)
ZERO_HASHES(d) ==
    IF d = 0 THEN ZERO ELSE hash32_concat(ZERO_HASHES(d - 1), ZERO_HASHES(d - 1))

\* The value a usize of `bits` bits keeps of v when an operation wraps.
wrapping(v, bits) == v % (2 ^ bits)

\* usize::next_power_of_two of a build whose usize has `bits` bits: above
\* 2^(bits - 1) the result does not fit, which panics with overflow checks
\* and gives 0 without them.
next_power_of_two_build(n, bits, checks) ==
    IF n <= 2 ^ (bits - 1) THEN Returned(next_power_of_two(n))
    ELSE IF checks THEN Panicked
    ELSE Returned(0)

\* MerkleHasher::with_leaves(num_leaves), the writes of `leaves`, finish() of
\* a build: with_leaves takes num_leaves.next_power_of_two(); on the 0 of a
\* build without overflow checks the depth it derives is 0, which its
\* assert!(depth > 0) refuses, so that the call panics on either build.
MerkleHasher_build(num_leaves, leaves, bits, checks) ==
    LET width == next_power_of_two_build(num_leaves, bits, checks)
    IN  IF width.panic \/ width.value = 0
        THEN [ok |-> FALSE, root |-> ZERO]
        ELSE MerkleHasher(num_leaves, leaves)

\* tree_hash::vec_tree_hash_root::<T, N>(vec) of a build: N::to_usize() has
\* the target's width, and `N::to_usize() + factor - 1` is evaluated left to
\* right: the addition overflows usize as the build's overflow checks say
\* (panic with them, wrap-around without), then 1 is subtracted.
vec_tree_hash_root_build(T, vec, N, bits, checks) ==
    LET n == typenum_to_usize(N, bits)
        factor == tree_hash_packing_factor(T)
        added == wrapping(n + factor, bits)
        sum == wrapping(added - 1, bits)
    IN  IF tree_hash_type(T) = "Basic"
        THEN IF n + factor > usize_MAX(bits) /\ checks
             THEN [ok |-> FALSE, root |-> ZERO]
             ELSE MerkleHasher_build(sum \div factor,
                                     leaves_of_bytes(packed_bytes(T, vec)), bits, checks)
        ELSE MerkleHasher_build(n, item_roots(T, vec), bits, checks)

\* generate_proof_for_vec::<T, N>(vec, gindex) of a build: target_size is
\* N::to_usize() at the target's width; the addition in the chunk count's
\* `target_size + factor - 1` and the padded count's next_power_of_two
\* overflow as the build says (panic with overflow checks; without them the
\* sum wraps and the padded count is 0, and the loop runs on those values).
\* compute_node_hash_at_gindex recomputes the chunk count by the same
\* wrapped expression, so it is handed the capacity that gives that count.
generate_proof_for_vec_build(T, vec, N, gindex, bits, checks) ==
    LET target_size == typenum_to_usize(N, bits)
        factor == tree_hash_packing_factor(T)
        added == wrapping(target_size + factor, bits)
        sum == wrapping(added - 1, bits)
        basic == tree_hash_type(T) = "Basic"
        chunk_count == sum \div factor
        padded == next_power_of_two_build(IF basic THEN chunk_count ELSE target_size,
                                          bits, checks)
        steps == generate_proof_loop(T, vec, IF basic THEN chunk_count * factor ELSE target_size,
                                     gindex, padded.value)
        none == [proof |-> <<>>, iterations |-> 0, depth |-> <<>>]
    IN  IF gindex = 0 THEN [panic |-> FALSE, ok |-> FALSE] @@ none
        ELSE IF target_size = 0 THEN [panic |-> FALSE, ok |-> TRUE] @@ none
        ELSE IF (basic /\ target_size + factor > usize_MAX(bits) /\ checks) \/ padded.panic
             THEN [panic |-> TRUE, ok |-> FALSE] @@ none
             ELSE [panic |-> FALSE,
                   ok |-> \A k \in 1..Len(steps) : steps[k].ok,
                   proof |-> [k \in 1..Len(steps) |-> steps[k].hash],
                   iterations |-> Len(steps),
                   depth |-> [k \in 1..Len(steps) |-> steps[k].depth]]

(* ------------------------------- actions ------------------------------- *)

Caps == 0..MaxN

\* The capacity a constructor of c's type works with: the type-level N, or
\* the max_len argument given to a RuntimeVariableList constructor.
CapOk(m) == c.shape = "RuntimeVariableList" \/ m = c.n

\* Raw sequences offered to a constructor of capacity m: every length up to
\* one more than the capacity.
InputVecs(m) == SeqsUpTo(ElemVals(c.elem), Min(m + 1, MaxLen))

\* Byte strings offered to a decoder of capacity m: every length up to one
\* element more than the capacity holds.
InputBytes(m) == SeqsUpTo(ByteVals, Min(ssz_fixed_len(c.elem) * (m + 1), MaxBytes))

\* The record of a constructor call: its name, input, capacity and Result.
Res(op, arg, m, r) == [op |-> op, arg |-> arg, n |-> m, ok |-> r.ok, err |-> r.err]

\* A constructor returned r: on Ok the caller holds the new value; on Err
\* there is no new value and the run goes on from the default (empty) value
\* of the type.
Built(m, r) ==
    Container(c.shape, c.elem, m,
              IF r.ok THEN r.vec ELSE default_value(c.shape, c.elem, m))

Init ==
    \E shape \in Shapes : \E T \in ShapeElems(shape) : \E m \in Caps :
        /\ c = Container(shape, T, m, default_value(shape, T, m))
        /\ res = [op |-> "init", arg |-> <<>>, n |-> m, ok |-> TRUE, err |-> NoError]

\* X::new(vec) / RuntimeVariableList::new(vec, max_len)
New(vec, m) ==
    /\ CapOk(m)
    /\ LET r == new(c.shape, vec, m)
       IN  /\ c' = Built(m, r)
           /\ res' = Res("new", vec, m, r)

\* VariableList::empty() / RuntimeVariableList::empty(max_len)
Empty(m) ==
    /\ c.shape \in VariableShapes
    /\ CapOk(m)
    /\ c' = Container(c.shape, c.elem, m, VariableList_empty)
    /\ res' = Res("empty", <<>>, m, Ok(VariableList_empty))

\* Default::default() of the type-level containers.
Default ==
    /\ c.shape # "RuntimeVariableList"
    /\ c' = Container(c.shape, c.elem, c.n, default_value(c.shape, c.elem, c.n))
    /\ res' = Res("default", <<>>, c.n, Ok(c'.vec))

\* FixedVector::from_elem(elem) / FixedVectorU8::from_elem(elem)
FromElem(e) ==
    /\ c.shape \in FixedShapes
    /\ c' = Container(c.shape, c.elem, c.n, FixedVector_from_elem(e, c.n))
    /\ res' = Res("from_elem", <<e>>, c.n, Ok(c'.vec))

\* VariableList::from(vec)
From(vec) ==
    /\ c.shape = "VariableList"
    /\ LET r == Ok(VariableList_from(vec, c.n))
       IN  /\ c' = Built(c.n, r)
           /\ res' = Res("from", vec, c.n, r)

\* X::try_from(vec): Self::new(vec) for FixedVector, FixedVectorU8 and
\* VariableListU8; for VariableList the blanket impl over From<Vec<T>>.
TryFrom(vec) ==
    /\ c.shape # "RuntimeVariableList"
    /\ LET r == IF c.shape = "VariableList"
                THEN Ok(VariableList_from(vec, c.n))
                ELSE new(c.shape, vec, c.n)
       IN  /\ c' = Built(c.n, r)
           /\ res' = Res("try_from", vec, c.n, r)

\* X::try_from_iter(iter) over an iterator yielding `items` and hinting `hint`.
TryFromIter(items, hint) ==
    /\ c.shape # "RuntimeVariableList"
    /\ LET r == try_from_iter(c.shape, items, hint, c.n)
       IN  /\ c' = Built(c.n, r)
           /\ res' = [hint |-> hint, pulled |-> r.pulled, prealloc |-> r.prealloc]
                      @@ Res("try_from_iter", items, c.n, r)

\* X::from_ssz_bytes(bytes) / RuntimeVariableList::from_ssz_bytes(bytes, max_len)
FromSszBytes(bytes, m) ==
    /\ CapOk(m)
    /\ LET r == from_ssz_bytes(c.shape, c.elem, bytes, m)
       IN  /\ c' = Built(m, r)
           /\ res' = Res("from_ssz_bytes", bytes, m, r)

\* X::deserialize(deserializer) over a text sequence `vec`.
Deserialize(vec) ==
    /\ c.shape # "RuntimeVariableList"
    /\ LET r == deserialize(c.shape, vec, c.n)
       IN  /\ c' = Built(c.n, r)
           /\ res' = Res("deserialize", vec, c.n, r)

\* list.push(value)
Push(value) ==
    /\ c.shape \in VariableShapes
    /\ LET r == push(c, value)
       IN  /\ c' = [c EXCEPT !.vec = r.vec]
           /\ res' = [pre |-> c] @@ Res("push", value, c.n, r)

\* x[i] = value through IndexMut / DerefMut / as_mut_slice; an index past
\* the length panics and writes nothing.
IndexMut(i, value) ==
    /\ i \in 1..Len(c.vec)
    /\ c' = [c EXCEPT !.vec[i] = value]
    /\ res' = [pre |-> c] @@ Res("index_mut", <<i, value>>, c.n, Ok(c'.vec))

\* round_trip(item): encode, then decode with the item's own capacity and
\* compare with the item.
RoundTrip ==
    /\ LET encoded == as_ssz_bytes(c)
           r == from_ssz_bytes(c.shape, c.elem, encoded, c.n)
       IN  res' = [bytes |-> encoded, bytes_len |-> ssz_bytes_len(c),
                   same |-> r.ok /\ eq(Container(c.shape, c.elem, c.n, r.vec), c)]
                  @@ Res("round_trip", encoded, c.n, r)
    /\ UNCHANGED c

\* Contents of the caller's buffer before ssz_append.
Buffers == {<<>>, <<1>>, <<0, 1>>}

\* c.ssz_append(&mut buf) on a buffer already holding `buf`.
SszAppend(buf) ==
    /\ res' = [buf |-> buf, out |-> ssz_append(c, buf), bytes_len |-> ssz_bytes_len(c)]
               @@ Res("ssz_append", buf, c.n, Ok(c.vec))
    /\ UNCHANGED c

\* c == other and the std hashes of both, `other` being a second value of
\* c's type built by new.
Compare(vec, m) ==
    /\ CapOk(m)
    /\ new(c.shape, vec, m).ok
    /\ LET other == Container(c.shape, c.elem, m, vec)
       IN  res' = [other |-> other, eq |-> eq(c, other), hash_eq |-> hash(c) = hash(other)]
                  @@ Res("compare", vec, m, Ok(vec))
    /\ UNCHANGED c

\* The same bytes decoded as FixedVectorU8<N> and as FixedVector<u8, N>.
DecodeBoth(bytes) ==
    /\ c.shape = "FixedVectorU8"
    /\ LET u == from_ssz_bytes("FixedVectorU8", "u8", bytes, c.n)
           o == from_ssz_bytes("FixedVector", "u8", bytes, c.n)
       IN  res' = [u8 |-> u, orig |-> o] @@ Res("decode_both", bytes, c.n, u)
    /\ UNCHANGED c

Next ==
    \/ \E m \in Caps : \E vec \in InputVecs(m) : New(vec, m)
    \/ \E m \in Caps : Empty(m)
    \/ Default
    \/ \E e \in ElemVals(c.elem) : FromElem(e)
    \/ \E vec \in InputVecs(c.n) : From(vec)
    \/ \E vec \in InputVecs(c.n) : TryFrom(vec)
    \/ \E items \in InputVecs(c.n), hint \in Hints : TryFromIter(items, hint)
    \/ \E m \in Caps : \E bytes \in InputBytes(m) : FromSszBytes(bytes, m)
    \/ \E vec \in InputVecs(c.n) : Deserialize(vec)
    \/ \E value \in ElemVals(c.elem) : Push(value)
    \/ \E i \in 1..MaxN, value \in ElemVals(c.elem) : IndexMut(i, value)
    \/ RoundTrip
    \/ \E m \in Caps : \E vec \in InputVecs(m) : Compare(vec, m)
    \/ \E buf \in Buffers : SszAppend(buf)
    \/ \E bytes \in InputBytes(c.n) : DecodeBoth(bytes)

Spec == Init /\ [][Next]_vars

\* RuntimeVariableList::deserialize(deserializer) over a text sequence `vec`
\* (the derived impl).
RuntimeDeserialize(vec) ==
    /\ c.shape = "RuntimeVariableList"
    /\ c' = RuntimeVariableList_deserialize(c.elem, vec)
    /\ res' = Res("deserialize", vec, c'.n, Ok(vec))

\* RuntimeVariableList::context_deserialize(deserializer, (ctx, max_len))
\* and FixedVector::<T, N>::context_deserialize(deserializer, ctx) over a
\* text sequence `vec`.
ContextDeserialize(vec, m) ==
    /\ c.shape \in {"RuntimeVariableList", "FixedVector"}
    /\ CapOk(m)
    /\ LET r == IF c.shape = "FixedVector"
                THEN FixedVector_context_deserialize(vec, m)
                ELSE RuntimeVariableList_context_deserialize(vec, m)
       IN  /\ c' = Built(m, r)
           /\ res' = Res("context_deserialize", vec, m, r)

\* The public operations together with the deserializers of
\* RuntimeVariableList.
NextSerde ==
    \/ Next
    \/ \E vec \in InputVecs(MaxN) : RuntimeDeserialize(vec)
    \/ \E m \in Caps : \E vec \in InputVecs(m) : ContextDeserialize(vec, m)

SpecSerde == Init /\ [][NextSerde]_vars

(* --------------------------- tree hash actions -------------------------- *)

\* Largest number of 32-byte leaves a capacity is chosen to span.
MaxChunks == 2

\* Element types hashed: the Basic u8 and u16 and the Container A.
HashElems(shape) ==
    IF shape \in {"VariableListU8", "FixedVectorU8"} THEN {"u8"} ELSE {"u8", "u16", "A"}

\* Elements that fill one leaf.
PerLeaf(T) == IF tree_hash_type(T) = "Basic" THEN tree_hash_packing_factor(T) ELSE 1

\* Capacities at the leaf boundaries: 0, 1, and k leaves exactly or one
\* element more.
HashCaps(T) == {0, 1} \cup UNION { {PerLeaf(T) * k, PerLeaf(T) * k + 1} : k \in 1..MaxChunks }

\* Element values hashed; the first is T::default().
HashVals(T) ==
    CASE T = "u8" -> {0, 1}
      [] T = "u16" -> {0, 256}
      [] T = "A" -> {<<0, 0>>, <<0, 1>>}

HashHi(T) == CHOOSE v \in HashVals(T) : v # elem_default(T)

\* Sequences of capacity m's type at the boundary lengths: all default, all
\* non-default, and default with one non-default element first or last.
HashVecs(T, m) ==
    UNION { { [k \in 1..l |-> elem_default(T)], [k \in 1..l |-> HashHi(T)],
              [k \in 1..l |-> IF k = 1 THEN HashHi(T) ELSE elem_default(T)],
              [k \in 1..l |-> IF k = l THEN HashHi(T) ELSE elem_default(T)] }
            : l \in {j \in HashCaps(T) : j <= m} }

InitHash ==
    \E shape \in Shapes : \E T \in HashElems(shape) : \E m \in HashCaps(T) :
        /\ c = Container(shape, T, m, default_value(shape, T, m))
        /\ res = [op |-> "init", arg |-> <<>>, n |-> m, ok |-> TRUE, err |-> NoError]

\* c.tree_hash_root(); ok is FALSE when an expect() inside panicked.
TreeHashRoot ==
    /\ LET r == tree_hash_root(c)
       IN  res' = [root |-> r.root, data_root |-> data_root(c).root]
                  @@ Res("tree_hash_root", <<>>, c.n, [ok |-> r.ok, err |-> NoError])
    /\ UNCHANGED c

\* The roots of c and of a second value of c's type and capacity built by
\* new; ok is FALSE, and there are no roots to compare, when an expect()
\* inside a tree_hash_root panicked.
CompareRoots(vec) ==
    /\ new(c.shape, vec, c.n).ok
    /\ LET other == Container(c.shape, c.elem, c.n, vec)
           r == tree_hash_root(c)
           o == tree_hash_root(other)
       IN  res' = IF r.ok /\ o.ok
                  THEN [other |-> other, root |-> r.root, other_root |-> o.root]
                       @@ Res("compare_roots", vec, c.n, Ok(vec))
                  ELSE [other |-> other]
                       @@ Res("compare_roots", vec, c.n, [ok |-> FALSE, err |-> NoError])
    /\ UNCHANGED c

\* What test_equivalent_behavior / tree_hash_consistency observe of
\* X::new(vec): the Result and, on Ok, len, is_empty, the contents, the
\* outcome of a push of each byte value (lists), ssz_fixed_len (vectors),
\* the encoding, its length and the tree hash root.
Observed(shape, vec, N) ==
    LET r == new(shape, vec, N)
        x == Container(shape, "u8", N, vec)
    IN  IF ~r.ok
        THEN [ok |-> FALSE, err |-> r.err]
        ELSE [ok |-> TRUE, err |-> NoError,
              len |-> len(x), is_empty |-> len(x) = 0, contents |-> x.vec,
              push |-> IF shape \in VariableShapes
                       THEN [v \in HashVals("u8") |-> push(x, v)]
                       ELSE <<>>,
              fixed_len |-> IF shape \in FixedShapes
                            THEN container_ssz_fixed_len(shape, "u8", N)
                            ELSE 0,
              bytes |-> as_ssz_bytes(x), bytes_len |-> ssz_bytes_len(x),
              root |-> tree_hash_root(x)]

\* The same bytes handed to the U8 wrapper of c's type and to the generic
\* container over u8 of the same capacity.
Equivalent(vec) ==
    /\ c.shape \in {"VariableListU8", "FixedVectorU8"}
    /\ LET generic == IF c.shape = "VariableListU8" THEN "VariableList" ELSE "FixedVector"
       IN  res' = [u8 |-> Observed(c.shape, vec, c.n), orig |-> Observed(generic, vec, c.n)]
                  @@ Res("equivalent", vec, c.n, new(c.shape, vec, c.n))
    /\ UNCHANGED c

NextHash ==
    \/ \E m \in HashCaps(c.elem) : \E vec \in HashVecs(c.elem, m) : New(vec, m)
    \/ \E vec \in HashVecs(c.elem, PerLeaf(c.elem) * MaxChunks + 1) : From(vec)
    \/ TreeHashRoot
    \/ \E vec \in HashVecs(c.elem, c.n) : CompareRoots(vec)
    \/ \E vec \in HashVecs(c.elem, c.n + 1) : Equivalent(vec)

SpecHash == InitHash /\ [][NextHash]_vars

(* ------------------- tree hash of every obtainable value ---------------- *)

\* The tree hash operations over the values the constructors of SpecHash
\* and the text deserializers build.
NextTotal ==
    \/ NextHash
    \/ \E vec \in HashVecs(c.elem, c.n + 1) : Deserialize(vec)
    \/ \E vec \in HashVecs(c.elem, PerLeaf(c.elem) * MaxChunks + 1) : RuntimeDeserialize(vec)
    \/ \E m \in HashCaps(c.elem) : \E vec \in HashVecs(c.elem, m + 1) : ContextDeserialize(vec, m)

SpecTotal == InitHash /\ [][NextTotal]_vars

(* ------------------------- pre-allocation actions ----------------------- *)

\* Declared capacities around the pre-allocation ceiling, and small ones.
AllocCaps == {0, 1, MAX_ELEMENTS_TO_PRE_ALLOCATE, MAX_ELEMENTS_TO_PRE_ALLOCATE + 1}

\* Size hints: no upper bound, and upper bounds below, at and above the
\* ceiling.
AllocHints ==
    {<<>>, <<0>>, <<MAX_ELEMENTS_TO_PRE_ALLOCATE>>, <<MAX_ELEMENTS_TO_PRE_ALLOCATE + 1>>}

\* Items an iterator yields, whatever it hints: up to two more than the
\* small capacities admit.
AllocItems == SeqsUpTo(ElemVals(c.elem), MaxLen)

\* The container type is chosen and no value of it is built yet: c.vec is a
\* value of the type only after a call that returned Ok.
InitAlloc ==
    \E shape \in {"VariableList", "FixedVector"} : \E T \in ShapeElems(shape) :
        \E m \in AllocCaps :
            /\ c = Container(shape, T, m, <<>>)
            /\ res = [op |-> "type", arg |-> <<>>, n |-> m, ok |-> FALSE, err |-> NoError]

\* X::try_from_iter(iter) as an associated function of c's type: the caller
\* holds the returned value on Ok and nothing on Err.
TryFromIterOf(items, hint) ==
    LET r == try_from_iter(c.shape, items, hint, c.n)
    IN  /\ c' = Container(c.shape, c.elem, c.n, r.vec)
        /\ res' = [hint |-> hint, pulled |-> r.pulled, prealloc |-> r.prealloc]
                   @@ Res("try_from_iter", items, c.n, r)

NextAlloc ==
    \E items \in AllocItems : \E hint \in AllocHints : TryFromIterOf(items, hint)

SpecAlloc == InitAlloc /\ [][NextAlloc]_vars

(* -------------------------- length guard actions ----------------------- *)

\* Pointer widths of the targets a build is made for.
Targets == {NarrowBits, WideBits}

\* Type-level capacities: small ones, and those around each power of two
\* from below the narrow usize to above u64, among them the one a packing
\* factor of u64 below the power.
TypeNums ==
    {0, 1, 10, 16}
        \cup UNION { {2 ^ k - 4, 2 ^ k - 1, 2 ^ k, 2 ^ k + 1} : k \in (NarrowBits - 1)..(WideBits + 1) }

\* Element types of the large lists: the Basic u64 and the Vector Hash256.
WidthElems == {"u64", "Hash256"}

\* A build (target pointer width, cap feature, overflow checks) and an empty
\* VariableList<T, N> in it.
InitWidth ==
    \E bits \in Targets : \E cap \in BOOLEAN : \E checks \in BOOLEAN :
        \E T \in WidthElems : \E N \in TypeNums :
            /\ c = [target |-> bits, cap |-> cap, checks |-> checks]
                   @@ Container("VariableList", T, N, VariableList_empty)
            /\ res = [op |-> "init", panic |-> FALSE, value |-> 0]

\* to_usize::<N>() in c's build.
ToUsize ==
    /\ res' = [op |-> "to_usize"] @@ to_usize_build(c.n, c.target, c.cap)
    /\ UNCHANGED c

\* Lengths of the all-zero lists hashed.
ZeroLens == {10}

\* VariableList::<T, N>::from(vec![T::zero(); k]).tree_hash_root() in c's
\* build: from() truncates to to_usize::<N>(), tree_hash_root mixes the
\* length into vec_tree_hash_root::<T, N>.
ZerosRoot(k) ==
    LET lim == to_usize_build(c.n, c.target, c.cap)
        vec == truncate(repeat_elem(elem_default(c.elem), k), lim.value)
        r == vec_tree_hash_root_build(c.elem, vec, c.n, c.target, c.checks)
    IN  IF lim.panic
        THEN /\ res' = [op |-> "zeros_root", panic |-> TRUE, value |-> k]
             /\ UNCHANGED c
        ELSE /\ res' = [op |-> "zeros_root", panic |-> ~r.ok, value |-> k,
                        data_root |-> r.root, root |-> mix_in_length(r.root, Len(vec))]
             /\ c' = [c EXCEPT !.vec = vec]

\* Generalized indices proved in a build: the root, its children and a
\* node two levels down.
WidthGindexes == {1, 2, 3, 5}

\* generate_proof_for_vec::<T, N>(&c, gindex) in c's build.
ProofAtWidth(gindex) ==
    /\ res' = [op |-> "generate_proof", gindex |-> gindex]
               @@ generate_proof_for_vec_build(c.elem, c.vec, c.n, gindex, c.target, c.checks)
    /\ UNCHANGED c

NextWidth ==
    \/ ToUsize
    \/ \E k \in ZeroLens : ZerosRoot(k)
    \/ \E g \in WidthGindexes : ProofAtWidth(g)

SpecWidth == InitWidth /\ [][NextWidth]_vars

(* ------------------------------ proof actions -------------------------- *)

\* Element types proved: the Basic u64 and the Container A.
ProofElems == {"u64", "A"}

\* The k-th value held (distinct at every position).
ProofVal(T, k) == IF T = "A" THEN <<k - 1, 0>> ELSE k - 1

\* The first l values, for the lengths 0, 1, N - 1 and N that the type admits.
ProofVecs(shape, T, N) ==
    { [k \in 1..l |-> ProofVal(T, k)] :
          l \in IF shape \in FixedShapes THEN {N} ELSE {j \in {0, 1, N - 1, N} : j >= 0 /\ j <= N} }

\* Generalized indices asked for: 0, every node of the tree with its length
\* mix-in level, and some past its leaves.
ProofGindexes(T, N) == 0..(4 * effective_size(T, N) + 1)

\* Paths of test::gindex_basics: x3.x2.x1, x3.x2.y1, x3.y2.y1[5] in Nested3 and
\* [0].x3.y2.y1[5] in VariableList<Nested3, U5>.
TestPaths ==
    { <<FieldStep(2, 0), FieldStep(2, 0), FieldStep(2, 0)>>,
      <<FieldStep(2, 0), FieldStep(2, 0), FieldStep(2, 1)>>,
      <<FieldStep(2, 0), FieldStep(2, 1), FieldStep(2, 1), IndexStep("u64", 5, 10)>>,
      <<IndexStep("A", 0, 5), FieldStep(2, 0), FieldStep(2, 1), FieldStep(2, 1),
        IndexStep("u64", 5, 10)>> }

\* Parent gindices a list is resolved under.
Parents == 1..3

\* A VariableList or FixedVector built by new.
InitProof ==
    \E shape \in {"VariableList", "FixedVector"} : \E T \in ProofElems :
        \E m \in HashCaps(T) : \E vec \in ProofVecs(shape, T, m) :
            /\ c = Container(shape, T, m, vec)
            /\ res = Res("new", vec, m, new(shape, vec, m))

\* generate_proof_for_vec::<T, N>(&c, gindex)
GenerateProof(gindex) ==
    /\ res' = [op |-> "generate_proof", gindex |-> gindex]
               @@ generate_proof_for_vec(c.elem, c.vec, c.n, gindex)
    /\ UNCHANGED c

\* The proof at index i of the list c: generate_proof_for_vec at the gindex
\* the resolver gives index i under the root (parent gindex 1), next to c's
\* own tree_hash_root.  The resolver is implemented for VariableList only,
\* and for every index: nothing relates I to N or to the length.
ProveElement(i) ==
    /\ c.shape = "VariableList"
    /\ LET g == VecIndex_gindex(c.elem, i, c.n, 1)
       IN  res' = [op |-> "prove_element", index |-> i, gindex |-> g,
                   root |-> tree_hash_root(c).root]
                  @@ generate_proof_for_vec(c.elem, c.vec, c.n, g)
    /\ UNCHANGED c

\* <VariableList<T, N> as Resolve<VecIndex<I, N>>>::gindex(parent_index),
\* for every I.
ResolveIndex(i, parent_index) ==
    /\ c.shape = "VariableList"
    /\ res' = [op |-> "gindex", index |-> i, parent |-> parent_index,
               value |-> VecIndex_gindex(c.elem, i, c.n, parent_index)]
    /\ UNCHANGED c

\* <S as Resolve<Path<..>>>::gindex(1)
ResolvePath(path) ==
    /\ res' = [op |-> "path", path |-> path, value |-> Path_gindex(path, 1)]
    /\ UNCHANGED c

NextProof ==
    \/ \E g \in ProofGindexes(c.elem, c.n) : GenerateProof(g)
    \/ \E i \in 0..(PerLeaf(c.elem) * MaxChunks) : ProveElement(i)
    \/ \E i \in 0..(PerLeaf(c.elem) * MaxChunks) : \E p \in Parents : ResolveIndex(i, p)
    \/ \E path \in TestPaths : ResolvePath(path)

SpecProof == InitProof /\ [][NextProof]_vars

(* ---------------------- RuntimeFixedVector actions ---------------------- *)

\* Vectors handed to RuntimeFixedVector::new.
RfvVecs(T) == SeqsUpTo(ElemVals(T), MaxLen)

InitRfv ==
    \E T \in ElemTypes : \E n \in 0..MaxLen :
        /\ c = RuntimeFixedVector_default(T, n)
        /\ res = [op |-> "default", arg |-> n, before |-> c, taken |-> c, panic |-> FALSE]

\* c = RuntimeFixedVector::new(vec)
RfvNew(vec) ==
    /\ c' = RuntimeFixedVector_new(c.elem, vec)
    /\ res' = [op |-> "new", arg |-> vec, before |-> c, taken |-> c, panic |-> FALSE]

\* c = RuntimeFixedVector::default(n)
RfvDefault(n) ==
    /\ c' = RuntimeFixedVector_default(c.elem, n)
    /\ res' = [op |-> "default", arg |-> n, before |-> c, taken |-> c, panic |-> FALSE]

\* c.take()
RfvTake ==
    LET r == RuntimeFixedVector_take(c)
    IN  /\ c' = r.self
        /\ res' = [op |-> "take", arg |-> 0, before |-> c, taken |-> r.ret, panic |-> FALSE]

\* c[i] = value
RfvIndexMut(i, value) ==
    LET r == RuntimeFixedVector_index_mut(c, i, value)
    IN  /\ c' = r.self
        /\ res' = [op |-> "index_mut", arg |-> <<i, value>>, before |-> c, taken |-> c,
                   panic |-> r.panic]

NextRfv ==
    \/ \E vec \in RfvVecs(c.elem) : RfvNew(vec)
    \/ \E n \in 0..MaxLen : RfvDefault(n)
    \/ RfvTake
    \/ \E i \in 0..MaxLen : \E value \in ElemVals(c.elem) : RfvIndexMut(i, value)

SpecRfv == InitRfv /\ [][NextRfv]_vars

(* ------------------------------ properties ----------------------------- *)

\* C1: a Variable list (VariableList, VariableListU8, RuntimeVariableList)
\* never holds more elements than its capacity: 0 <= len() <= N after any
\* sequence of new, empty, default, From<Vec<T>>, try_from_iter,
\* from_ssz_bytes, push and element writes.
C1_LenWithinCapacity ==
    c.shape \in VariableShapes => (0 <= len(c) /\ len(c) <= max_len(c))

\* A full Variable list on which a push was just refused.
C1_Witness ==
    /\ c.shape \in VariableShapes
    /\ res.op = "push" /\ ~res.ok
    /\ len(c) = max_len(c) /\ len(c) > 0

\* C2: a FixedVector / FixedVectorU8 always has len() == N, whichever
\* constructor, decoder or deserializer produced it, and an element write
\* leaves the length as it was.
C2_FixedLenIsN ==
    c.shape \in FixedShapes =>
        /\ len(c) = c.n
        /\ res.op = "index_mut" => len(c) = len(res.pre)

\* A Fixed vector of non-zero length after an element write.
C2_Witness ==
    /\ c.shape \in FixedShapes
    /\ res.op = "index_mut"
    /\ len(c) = c.n /\ c.n > 1 /\ c.vec # res.pre.vec

\* C3: new(sequence) succeeds iff len(sequence) == N (Fixed) or
\* len(sequence) <= N (Variable); on success the container holds exactly
\* the sequence, on failure the error is OutOfBounds { i: len(sequence), len: N }.
C3_NewLengthCheck ==
    res.op = "new" =>
        /\ res.ok <=> IF c.shape \in FixedShapes
                      THEN Len(res.arg) = res.n
                      ELSE Len(res.arg) <= res.n
        /\ res.ok => (c.vec = res.arg /\ c.n = res.n)
        /\ ~res.ok => res.err = OutOfBounds(Len(res.arg), res.n)

\* new refused a too-short sequence for a Fixed vector.
C3_Witness ==
    /\ res.op = "new" /\ ~res.ok
    /\ c.shape \in FixedShapes
    /\ Len(res.arg) < res.n
    /\ res.err = OutOfBounds(Len(res.arg), res.n)

\* C4: push(v) succeeds iff len() < N and then appends v, keeping the
\* earlier elements; on a full list it fails with
\* OutOfBounds { i: len() + 1, len: N }, so that a refused push always
\* reports i = N + 1.
C4_PushAppendsOrFails ==
    res.op = "push" =>
        /\ res.ok <=> len(res.pre) < res.n
        /\ res.ok => c.vec = Append(res.pre.vec, res.arg)
        /\ ~res.ok => /\ len(res.pre) = res.n
                      /\ res.err = OutOfBounds(len(res.pre) + 1, res.n)
                      /\ res.err.i = res.n + 1

\* A push refused on a full list of the largest capacity.
C4_Witness ==
    /\ res.op = "push" /\ ~res.ok
    /\ res.n = MaxN /\ len(c) = MaxN
    /\ res.err = OutOfBounds(MaxN + 1, MaxN)

\* C5: a refused push leaves the list as it was (elements, length and
\* capacity), and pushing again is refused with the same error.
C5_FailedPushKeepsList ==
    (res.op = "push" /\ ~res.ok) =>
        /\ c = res.pre
        /\ \A v \in ElemVals(c.elem) :
              LET again == push(c, v)
              IN  ~again.ok /\ again.err = res.err /\ again.vec = c.vec

\* A refused push on a non-empty RuntimeVariableList.
C5_Witness ==
    /\ res.op = "push" /\ ~res.ok
    /\ c.shape = "RuntimeVariableList"
    /\ len(c) > 0 /\ c = res.pre

\* The constructors of a Variable container that take a raw sequence.
RawSequenceOps == {"new", "from", "try_from", "try_from_iter"}

\* C6 as stated: every constructor taking a raw sequence fails on more than
\* N elements, and succeeds keeping the elements with at most N.
C6_Original ==
    (c.shape \in VariableShapes /\ res.op \in RawSequenceOps) =>
        /\ res.ok <=> Len(res.arg) <= res.n
        /\ res.ok => c.vec = res.arg

\* C6 (amended): new and try_from_iter fail on more than N elements; the
\* Vec<T> conversion of VariableList (From, and TryFrom through it) does not
\* fail but keeps the first N elements; with at most N elements every
\* constructor succeeds and keeps the elements in order.
C6_RawSequenceConstructors ==
    (c.shape \in VariableShapes /\ res.op \in RawSequenceOps) =>
        LET truncating == c.shape = "VariableList" /\ res.op \in {"from", "try_from"}
        IN  /\ Len(res.arg) <= res.n => (res.ok /\ c.vec = res.arg)
            /\ (Len(res.arg) > res.n /\ ~truncating) => ~res.ok
            /\ (Len(res.arg) > res.n /\ truncating) =>
                  (res.ok /\ c.vec = SubSeq(res.arg, 1, res.n))

\* try_from_iter refused an iterator longer than the capacity.
C6_Witness ==
    /\ c.shape = "VariableList"
    /\ res.op = "try_from_iter" /\ ~res.ok
    /\ Len(res.arg) > res.n

\* C7: VariableList::from(vec) never fails and holds the first
\* min(len(vec), N) elements of vec in order.
C7_FromTruncates ==
    res.op = "from" =>
        /\ res.ok
        /\ c.vec = SubSeq(res.arg, 1, Min(Len(res.arg), res.n))

\* A too-long Vec was converted and cut to a non-zero capacity.
C7_Witness ==
    /\ res.op = "from"
    /\ Len(res.arg) > res.n /\ res.n > 0
    /\ len(c) = res.n

\* C8: equality and std hashing of containers depend only on (length,
\* ordered elements): two containers with equal contents compare equal and
\* hash equal whatever their capacities, two RuntimeVariableLists built with
\* different max_len included.
C8_Original ==
    (res.op = "compare" /\ c.vec = res.other.vec) => (res.eq /\ res.hash_eq)

\* C9 as stated: every container value of every shape and capacity decodes
\* from its own encoding to itself, and ssz_bytes_len is the encoded length.
C9_Original ==
    res.op = "round_trip" => (res.same /\ res.bytes_len = Len(res.bytes))

\* C9 (amended): ssz_bytes_len equals the encoded length for every container
\* value, and the round trip holds for every value with two exceptions: a
\* FixedVector of capacity 0, whose (empty) encoding from_ssz_bytes rejects
\* with InvalidByteLength { len: 0, expected: 1 }, and a RuntimeVariableList
\* holding more than max_len elements (the derived Deserialize builds such
\* values), whose encoding is rejected with BytesInvalid.
C9_RoundTrip ==
    res.op = "round_trip" =>
        /\ res.bytes_len = Len(res.bytes)
        /\ CASE c.shape = "FixedVector" /\ c.n = 0 ->
                  ~res.ok /\ res.err = InvalidByteLength(0, 1)
             [] c.shape = "RuntimeVariableList" /\ len(c) > c.n ->
                  ~res.ok /\ res.err =
                      BytesInvalid("RuntimeVariableList exceeds maximum", len(c), c.n)
             [] OTHER -> res.same

\* A full list of two different u16 values went through the round trip.
C9_Witness ==
    /\ res.op = "round_trip" /\ res.same
    /\ c.elem = "u16" /\ c.shape \in VariableShapes
    /\ len(c) = 2 /\ c.n = 2 /\ c.vec[1] # c.vec[2]
    /\ Len(res.bytes) = 4

\* C10 as stated: decoding the empty byte string into any bounded container
\* (every element type here has a non-zero fixed length) fails with
\* InvalidByteLength { len: 0, expected: 1 }.
C10_Original ==
    (res.op = "from_ssz_bytes" /\ res.arg = <<>>) =>
        (~res.ok /\ res.err = InvalidByteLength(0, 1))

\* C10 (amended): decoding the empty byte string into a FixedVector<T, N>
\* fails with InvalidByteLength { len: 0, expected: 1 } for every N; a
\* FixedVectorU8<N> answers through FixedVector::new instead: BytesInvalid
\* for N > 0 and the empty vector for N = 0.
C10_EmptyInputFixed ==
    (res.op = "from_ssz_bytes" /\ res.arg = <<>>) =>
        /\ c.shape = "FixedVector" => (~res.ok /\ res.err = InvalidByteLength(0, 1))
        /\ c.shape = "FixedVectorU8" =>
              IF res.n = 0
              THEN res.ok /\ c.vec = <<>>
              ELSE ~res.ok /\ res.err = BytesInvalid("OutOfBounds", 0, res.n)

\* The empty byte string was refused by a FixedVector of capacity 0.
C10_Witness ==
    /\ res.op = "from_ssz_bytes" /\ res.arg = <<>>
    /\ c.shape = "FixedVector" /\ res.n = 0
    /\ res.err = InvalidByteLength(0, 1)

\* C11: decoding the empty byte string into a Variable list (VariableList,
\* VariableListU8, RuntimeVariableList) of any capacity succeeds and yields
\* the empty list, which equals default() / empty() of the same capacity and
\* encodes back to zero bytes.
C11_EmptyInputVariable ==
    (res.op = "from_ssz_bytes" /\ res.arg = <<>> /\ c.shape \in VariableShapes) =>
        /\ res.ok
        /\ len(c) = 0
        /\ eq(c, Container(c.shape, c.elem, res.n, VariableList_empty))
        /\ eq(c, Container(c.shape, c.elem, res.n, default_value(c.shape, c.elem, res.n)))
        /\ as_ssz_bytes(c) = <<>>
        /\ ssz_bytes_len(c) = 0

\* The empty byte string was decoded into a RuntimeVariableList of non-zero
\* capacity.
C11_Witness ==
    /\ res.op = "from_ssz_bytes" /\ res.arg = <<>> /\ res.ok
    /\ c.shape = "RuntimeVariableList" /\ c.n > 0
    /\ c.vec = <<>>

\* C12 as stated: a non-empty input of fixed-length elements of size s is
\* accepted only if its length is a multiple of s and the quotient is N
\* (Fixed) or at most max (Variable), an accepted result has length / s
\* elements, and every other input is rejected with BytesInvalid naming both
\* counts.
C12_Original ==
    (res.op = "from_ssz_bytes" /\ res.arg # <<>>) =>
        LET s == ssz_fixed_len(c.elem)
            q == Len(res.arg) \div s
            exact == Len(res.arg) % s = 0
            fits == IF c.shape \in FixedShapes THEN q = res.n ELSE q <= res.n
        IN  /\ res.ok => (exact /\ fits /\ len(c) = q)
            /\ ~(exact /\ fits) =>
                  /\ ~res.ok
                  /\ res.err.kind = "BytesInvalid"
                  /\ res.err.a = q /\ res.err.b = res.n

\* C12 (amended): such an input is accepted only if its length is a multiple
\* of s and the quotient is N (Fixed) or at most max (Variable), and an
\* accepted result has length / s elements (u8 and u16 chunks always decode,
\* so here every such input is accepted).  An input whose count
\* floor(length / s) is not N (Fixed) or exceeds max (Variable) is rejected
\* with BytesInvalid naming both counts; an input whose count is admissible
\* but whose length is not a multiple of s is rejected by the element decoder
\* with InvalidByteLength { len: length mod s, expected: s }.
C12_DecodeLengthCheck ==
    (res.op = "from_ssz_bytes" /\ res.arg # <<>>) =>
        LET s == ssz_fixed_len(c.elem)
            q == Len(res.arg) \div s
            exact == Len(res.arg) % s = 0
            fits == IF c.shape \in FixedShapes THEN q = res.n ELSE q <= res.n
        IN  /\ res.ok <=> (exact /\ fits)
            /\ res.ok => (len(c) = q /\ Len(res.arg) = s * len(c))
            /\ ~fits =>
                  /\ ~res.ok
                  /\ res.err.kind = "BytesInvalid"
                  /\ res.err.a = q /\ res.err.b = res.n
            /\ (fits /\ ~exact) =>
                  (~res.ok /\ res.err = InvalidByteLength(Len(res.arg) % s, s))

\* Three bytes were refused by a FixedVector<u16, 1>: the count 3 / 2 is 1,
\* the odd byte fails in the element decoder.
C12_Witness ==
    /\ res.op = "from_ssz_bytes" /\ ~res.ok
    /\ c.shape = "FixedVector" /\ c.elem = "u16" /\ res.n = 1
    /\ Len(res.arg) = 3
    /\ res.err = InvalidByteLength(1, 2)

\* C13: text deserialization rejects every sequence whose length violates the
\* container's invariant: a sequence longer than the capacity is rejected by
\* FixedVector, VariableList and RuntimeVariableList alike, a shorter one only
\* by the Fixed shape, and an accepted value satisfies the length invariant.
C13_SerdeLengthCheck ==
    res.op \in {"deserialize", "context_deserialize"} =>
        /\ Len(res.arg) > res.n => ~res.ok
        /\ (Len(res.arg) < res.n /\ c.shape \in FixedShapes) => ~res.ok
        /\ (Len(res.arg) <= res.n /\ c.shape \in VariableShapes) => res.ok
        /\ res.ok => /\ c.vec = res.arg
                     /\ IF c.shape \in FixedShapes
                        THEN len(c) = max_len(c)
                        ELSE len(c) <= max_len(c)

\* C14: encoding a container of fixed-length elements writes exactly the
\* elements' encodings one after the other in order, with no length prefix
\* and no offset table: element_fixed_length * len() bytes are added (a list
\* of k bytes encodes to its k raw bytes), each element's bytes are its
\* little-endian value, and the bytes already in the buffer are unchanged.
C14_EncodeConcatenates ==
    res.op = "ssz_append" =>
        LET s == ssz_fixed_len(c.elem)
            p == Len(res.buf)
        IN  /\ Len(res.out) = p + s * len(c)
            /\ res.bytes_len = s * len(c)
            /\ SubSeq(res.out, 1, p) = res.buf
            /\ \A k \in 1..len(c) :
                  LET at == p + s * (k - 1)
                  IN  IF s = 1
                      THEN res.out[at + 1] = c.vec[k]
                      ELSE res.out[at + 1] + 256 * res.out[at + 2] = c.vec[k]
            /\ c.elem = "u8" => SubSeq(res.out, p + 1, Len(res.out)) = c.vec

\* Two different u16 values were appended to a buffer that already held
\* two bytes.
C14_Witness ==
    /\ res.op = "ssz_append"
    /\ c.elem = "u16" /\ len(c) = 2 /\ c.vec[1] # c.vec[2]
    /\ Len(res.buf) = 2 /\ Len(res.out) = 6

\* The 32-byte little-endian leaf of a length below 2^16.
LengthLeaf(n) ==
    <<"chunk", [k \in 1..32 |-> IF k = 1 THEN n % 256 ELSE IF k = 2 THEN n \div 256 ELSE 0]>>

\* C15: the tree-hash root of a Variable list is the hash of its data root
\* and its current length as a 32-byte little-endian leaf
\* (mix_in_length(data_root, len())); the root of a Fixed vector is the data
\* root itself, with no length mixed in.
C15_LengthMixedIn ==
    res.op = "tree_hash_root" =>
        IF c.shape \in VariableShapes
        THEN res.root = <<"hash", res.data_root, LengthLeaf(len(c))>>
        ELSE res.root = res.data_root

\* The root of a non-empty, non-full Variable list was computed.
C15_Witness ==
    /\ res.op = "tree_hash_root" /\ res.ok
    /\ c.shape \in VariableShapes
    /\ len(c) > 0 /\ len(c) < c.n
    /\ res.root = mix_in_length(res.data_root, len(c))

\* Leaf k of the tree over x's elements: for Basic elements the packed
\* little-endian bytes of elements (k-1)*factor+1 .. k*factor, for the
\* Container A the root of element k; zero bytes past the real data.
RefLeaf(x, k) ==
    CASE x.elem = "u8" ->
           <<"chunk", [j \in 1..32 |->
               LET e == (k - 1) * 32 + j
               IN  IF e <= len(x) THEN x.vec[e] ELSE 0]>>
      [] x.elem = "u16" ->
           <<"chunk", [j \in 1..32 |->
               LET e == (k - 1) * 16 + (j + 1) \div 2
               IN  IF e > len(x) THEN 0
                   ELSE IF j % 2 = 1 THEN x.vec[e] % 256 ELSE x.vec[e] \div 256]>>
      [] OTHER ->
           IF k <= len(x)
           THEN <<"hash",
                  <<"chunk", [j \in 1..32 |-> IF j = 1 THEN x.vec[k][1] ELSE 0]>>,
                  <<"chunk", [j \in 1..32 |-> IF j = 1 THEN x.vec[k][2] ELSE 0]>> >>
           ELSE <<"chunk", [j \in 1..32 |-> 0]>>

\* The least power of two that is at least n (1 for n = 0).
RefPow2(n) == CHOOSE p \in {2 ^ e : e \in 0..(WideBits + 3)} : p >= n /\ (p = 1 \/ p \div 2 < n)

\* Leaves of the tree of capacity N: next_power_of_two(ceil(N / factor)) for
\* Basic elements, next_power_of_two(N) for Composite ones.
RefWidth(x) ==
    IF x.elem \in {"u8", "u16"}
    THEN RefPow2((x.n + (IF x.elem = "u8" THEN 32 ELSE 16) - 1) \div (IF x.elem = "u8" THEN 32 ELSE 16))
    ELSE RefPow2(x.n)

\* The root of a full binary tree, hashing pairs layer by layer.
RECURSIVE RefReduce(_)
RefReduce(layer) ==
    IF Len(layer) = 1 THEN layer[1]
    ELSE RefReduce([i \in 1..(Len(layer) \div 2) |-> <<"hash", layer[2 * i - 1], layer[2 * i]>>])

\* C16: the tree under a container's data root is shaped by the declared
\* capacity N alone, never by the current length: it has
\* next_power_of_two(ceil(N / packing_factor)) leaves for Basic elements and
\* next_power_of_two(N) leaves for Composite ones, the leaves past the real
\* data being zero chunks, so that lists of one type of different lengths
\* are hashed over the same depth.
C16_TreeShapeByCapacity ==
    (res.op = "tree_hash_root" /\ res.ok) =>
        res.data_root = RefReduce([k \in 1..RefWidth(c) |-> RefLeaf(c, k)])

\* C17: with the hash primitive collision-free, tree_hash_root is injective
\* on (length, contents) for a container type: two values of one type have
\* the same root iff they hold the same elements; in particular a list of
\* length k and the list of length k + 1 obtained by appending a default
\* element have different roots, and the same k elements give the same root
\* however the list was built.
C17_RootInjective ==
    (res.op = "compare_roots" /\ res.ok) =>
        /\ res.root = res.other_root <=> c.vec = res.other.vec
        /\ (c.shape \in VariableShapes /\ res.other.vec = Append(c.vec, elem_default(c.elem)))
              => res.root # res.other_root

\* A non-empty list of default elements was compared with the list one
\* default element longer.
C17_Witness ==
    /\ res.op = "compare_roots"
    /\ c.shape \in VariableShapes /\ len(c) > 0
    /\ \A k \in 1..len(c) : c.vec[k] = elem_default(c.elem)
    /\ res.other.vec = Append(c.vec, elem_default(c.elem))
    /\ res.root # res.other_root

\* C18: VariableListU8<N> behaves exactly like VariableList<u8, N> for every
\* capacity N and every byte sequence: new gives the same Ok / Err with the
\* same error, and on success len, is_empty, contents, push results,
\* as_ssz_bytes, ssz_bytes_len and tree_hash_root are equal, for full and
\* non-full lists alike.
C18_VariableListU8Equivalent ==
    (res.op = "equivalent" /\ c.shape = "VariableListU8") => res.u8 = res.orig

\* C19: FixedVectorU8<N> behaves exactly like FixedVector<u8, N> for every N
\* and every byte sequence on construction, encoding and hashing: new gives
\* the same Ok / Err with the same error, and on success len, is_empty,
\* contents, as_ssz_bytes, ssz_bytes_len, ssz_fixed_len and tree_hash_root
\* are equal.
C19_FixedVectorU8Equivalent ==
    (res.op = "equivalent" /\ c.shape = "FixedVectorU8") =>
        /\ res.u8 = res.orig
        /\ res.ok <=> Len(res.arg) = res.n
        /\ res.ok => /\ res.u8.bytes = res.arg
                     /\ res.u8.fixed_len = res.n
                     /\ res.u8.root.ok

\* Both vectors were built over more than one leaf of bytes and agreed.
C19_Witness ==
    /\ res.op = "equivalent" /\ c.shape = "FixedVectorU8"
    /\ res.ok /\ res.n > BYTES_PER_CHUNK
    /\ res.arg[res.n] # res.arg[1]
    /\ res.u8.root = res.orig.root

\* C20: decoding agrees between FixedVectorU8<N> and FixedVector<u8, N>: for
\* every N (0 included) and every byte string b (the empty one included),
\* FixedVectorU8::<N>::from_ssz_bytes(b) succeeds iff
\* FixedVector::<u8, N>::from_ssz_bytes(b) succeeds, and on success both hold
\* the same bytes.
C20_DecodeAgrees ==
    res.op = "decode_both" =>
        /\ res.u8.ok <=> res.orig.ok
        /\ res.u8.ok => res.u8.vec = res.orig.vec

\* C21: try_from_iter of VariableList and of FixedVector never allocates more
\* than MAX_ELEMENTS_TO_PRE_ALLOCATE elements up front, whatever the declared
\* capacity N and whatever upper bound (or none) the size hint reports.
C21_PreAllocationCapped ==
    res.op = "try_from_iter" => res.prealloc <= MAX_ELEMENTS_TO_PRE_ALLOCATE

\* C22: to_usize::<N>() returns N when N fits the target's usize; when N
\* exceeds usize::MAX on a narrow-pointer target it panics in the default
\* build and returns usize::MAX with the cap feature; a returned value is
\* never N wrapped or truncated; the policy is the build's, the same for
\* every call.
C22_LengthGuard ==
    res.op = "to_usize" =>
        /\ c.n <= usize_MAX(c.target) => res = [op |-> "to_usize"] @@ Returned(c.n)
        /\ (c.n > usize_MAX(c.target) /\ c.target = NarrowBits) =>
               IF c.cap THEN res = [op |-> "to_usize"] @@ Returned(usize_MAX(c.target))
               ELSE res.panic
        /\ ~res.panic => res.value \in {c.n, usize_MAX(c.target)}

\* u64::ilog2 of a power of two.
RECURSIVE ilog2(_)
ilog2(n) == IF n <= 1 THEN 0 ELSE 1 + ilog2(n \div 2)

\* The depth of the data tree of capacity N over elements of type T.
ExpectedDepth(T, N) == ilog2(next_power_of_two(N)) - ilog2(next_power_of_two(PerLeaf(T)))

\* C23: for every capacity N from 16 up to the largest tested (2^48 of the
\* 64-bit range; here the largest N whose padded leaf count still fits the
\* wide usize, as that of 2^48 does), on every build where to_usize::<N>() returns (N fits
\* usize, or the cap feature is on), the root of a VariableList of 10 zero
\* elements is mix_in_length(ZERO_HASHES[d], 10) with d the true depth.
C23_LargeCapacityRoot ==
    (/\ res.op = "zeros_root"
     /\ c.n >= 16 /\ c.n <= 2 ^ (WideBits - 1)
     /\ (c.n <= usize_MAX(c.target) \/ c.cap)) =>
        /\ ~res.panic
        /\ res.data_root = ZERO_HASHES(ExpectedDepth(c.elem, c.n))
        /\ res.root = mix_in_length(ZERO_HASHES(ExpectedDepth(c.elem, c.n)), res.value)

\* The leaf k (from 1) of x's data tree, written out byte by byte.
ProofLeaf(x, k) ==
    IF x.elem = "u64"
    THEN <<"chunk", [j \in 1..32 |->
            LET e == (k - 1) * 4 + ((j - 1) \div 8) + 1
            IN  IF e <= len(x) /\ (j - 1) % 8 = 0 THEN x.vec[e] ELSE 0]>>
    ELSE IF x.elem = "Hash256"
    THEN <<"chunk", IF k <= len(x) THEN x.vec[k] ELSE [j \in 1..32 |-> 0]>>
    ELSE RefLeaf(x, k)

\* The leaf that holds element i (from 0).
ElementLeaf(x, i) == ProofLeaf(x, IF x.elem = "u64" THEN (i \div 4) + 1 ELSE i + 1)

\* Recombination of a leaf with a proof: at each level the node is the right
\* input when the gindex is odd, the left one when it is even.
RECURSIVE FoldProof(_, _, _)
FoldProof(node, proof, g) ==
    IF proof = <<>> THEN node
    ELSE FoldProof(IF g % 2 = 1 THEN <<"hash", Head(proof), node>>
                   ELSE <<"hash", node, Head(proof)>>,
                   Tail(proof), g \div 2)

\* C24: for every element i of a container, the proof generated at the
\* gindex the resolver assigns to element i, folded from the element's leaf
\* by the gindex parities, reproduces the container's own tree_hash_root.
C24_ProofReproducesRoot ==
    (res.op = "prove_element" /\ res.index < len(c)) =>
        /\ res.ok
        /\ FoldProof(ElementLeaf(c, res.index), res.proof, res.gindex) = res.root

\* The nodes of x's tree: gindices 1 up to the last leaf of the data tree,
\* which a list's length mix-in puts one level further down.
AddressesNode(x, g) ==
    /\ g >= 1
    /\ g < (IF x.shape \in VariableShapes THEN 4 ELSE 2) * effective_size(x.elem, x.n)

\* C25: generate_proof_for_vec returns Err exactly when the gindex is 0 or
\* does not address a node of the container's tree, and Ok for every gindex
\* that addresses one.
C25_InvalidIndexRefused ==
    res.op = "generate_proof" => (res.ok <=> AddressesNode(c, res.gindex))

\* ceil(N / factor) and floor(I / factor), found by search.
RefChunkCount(T, N) ==
    CHOOSE k \in 0..N : k * PerLeaf(T) >= N /\ (k = 0 \/ (k - 1) * PerLeaf(T) < N)

RefPosition(T, I) ==
    CHOOSE q \in 0..I : q * PerLeaf(T) <= I /\ I < (q + 1) * PerLeaf(T)

\* g is node a or lies below it.
RECURSIVE IsDescendant(_, _)
IsDescendant(g, a) == g = a \/ (g > a /\ IsDescendant(g \div 2, a))

\* C26: element I of a VariableList of capacity N under parent gindex p has
\* gindex p * 2 * next_power_of_two(chunk_count(N)) + pos(I), pos(I) being I
\* for Composite elements and I / packing_factor for Basic ones; it lies
\* under the data root 2p, never under the length node 2p + 1; paths apply
\* the formula one level per step: x3.x2.x1 is 8, x3.x2.y1 is 9,
\* x3.y2.y1[5] is 89 and [0].x3.y2.y1[5] in a list of capacity 5 is 1049.
C26_GindexFormula ==
    /\ (res.op = "gindex" /\ res.index < c.n) =>
           /\ res.value = res.parent * 2 * RefPow2(RefChunkCount(c.elem, c.n))
                             + RefPosition(c.elem, res.index)
           /\ IsDescendant(res.value, 2 * res.parent)
           /\ ~IsDescendant(res.value, 2 * res.parent + 1)
    /\ res.op = "path" =>
           res.value = CASE Len(res.path) = 5 -> 1049
                         [] Len(res.path) = 4 -> 89
                         [] OTHER -> 8 + res.path[3].index

C26_Witness ==
    /\ res.op = "gindex"
    /\ c.elem = "u64" /\ c.n = 8 /\ res.index = 5 /\ res.parent = 3
    /\ res.value = 13

\* floor(log2(g)) for g >= 1, found by search.
FloorLog2(g) == CHOOSE e \in 0..16 : 2 ^ e <= g /\ g < 2 ^ (e + 1)

\* The padded leaf count of x's data tree.
ProofWidth(x) == RefPow2(RefChunkCount(x.elem, x.n))

\* The root of the subtree at gindex s of x's data tree, hashed layer by
\* layer over the leaves it spans.
RefNode(x, s) ==
    LET span == ProofWidth(x) \div (2 ^ FloorLog2(s))
        first == (s - 2 ^ FloorLog2(s)) * span
    IN  RefReduce([i \in 1..span |-> ProofLeaf(x, first + i)])

\* C27: for every gindex g >= 1 and capacity N >= 1 proof generation
\* terminates with Ok after exactly floor(log2(g)) rounds; the proof has
\* floor(log2(g)) hashes, the k-th (from 0) being the root of the subtree at
\* the sibling of floor(g / 2^k), target first; no sibling computation nests
\* deeper than log2 of the padded leaf count.
C27_ProofShape ==
    (res.op = "generate_proof" /\ res.gindex >= 1 /\ c.n >= 1) =>
        /\ res.ok
        /\ res.iterations = FloorLog2(res.gindex)
        /\ Len(res.proof) = FloorLog2(res.gindex)
        /\ \A k \in 0..(Len(res.proof) - 1) :
               LET node == res.gindex \div (2 ^ k)
                   s == CHOOSE t \in {node - 1, node + 1} : t \div 2 = node \div 2
               IN  /\ s < 2 * ProofWidth(c) => res.proof[k + 1] = RefNode(c, s)
                   /\ res.depth[k + 1] <= FloorLog2(ProofWidth(c))

\* C28: try_from_iter never holds more than N elements and fails as soon as
\* the count would exceed N, having pulled exactly N + 1 items, however many
\* the iterator would still yield; on an admissible number of items (at most
\* N for a VariableList, exactly N for a FixedVector) it returns them in
\* iteration order; the Result does not depend on the size hint.
C28_TryFromIterStopsEarly ==
    res.op = "try_from_iter" =>
        LET items == res.arg
            admissible == IF c.shape \in FixedShapes THEN Len(items) = c.n
                          ELSE Len(items) <= c.n
        IN  /\ Len(c.vec) <= c.n
            /\ res.pulled <= c.n + 1
            /\ Len(items) > c.n => ~res.ok /\ res.pulled = c.n + 1
            /\ admissible => res.ok /\ c.vec = items /\ res.pulled = Len(items)
            /\ res.ok => admissible
            /\ \A h \in AllocHints :
                   LET r == try_from_iter(c.shape, items, h, c.n)
                   IN  /\ r.ok = res.ok /\ r.err = res.err
                       /\ r.vec = c.vec /\ r.pulled = res.pulled

C28_Witness ==
    /\ res.op = "try_from_iter" /\ ~res.ok
    /\ c.shape = "FixedVector" /\ c.n = 1
    /\ Len(res.arg) = c.n + 2 /\ res.pulled = c.n + 1
    /\ res.hint = <<>>

\* C29: a RuntimeFixedVector's stored len is the number of elements it holds
\* and the length set at construction: new(vec) sets it to vec's length,
\* default(n) to n, and take() and writes through DerefMut keep it; take()
\* returns the previous elements with the same len and leaves self holding
\* len default elements.
C29_RuntimeFixedLength ==
    /\ c.len = Len(c.vec)
    /\ res.op = "new" => c.vec = res.arg /\ c.len = Len(res.arg)
    /\ res.op = "default" =>
           c.len = res.arg /\ \A k \in 1..Len(c.vec) : c.vec[k] = elem_default(c.elem)
    /\ res.op \in {"take", "index_mut"} => c.len = res.before.len
    /\ res.op = "index_mut" =>
           \A k \in 1..Len(c.vec) :
               c.vec[k] = IF ~res.panic /\ k = res.arg[1] + 1 THEN res.arg[2]
                          ELSE res.before.vec[k]
    /\ res.op = "take" =>
           /\ res.taken.vec = res.before.vec
           /\ res.taken.len = res.before.len
           /\ \A k \in 1..Len(c.vec) : c.vec[k] = elem_default(c.elem)

C29_Witness ==
    /\ res.op = "take"
    /\ res.taken.len = MaxN
    /\ \E k \in 1..Len(res.taken.vec) : res.taken.vec[k] # elem_default(c.elem)
    /\ c.len = MaxN

\* C30: tree_hash_root never panics on a container value obtained through
\* the constructors, decoders, text deserializers and mutators, the derived
\* deserializer of RuntimeVariableList included: the leaves written never
\* exceed the leaf count derived from the capacity.
C30_TreeHashTotal ==
    res.op = "tree_hash_root" => res.ok

====
